---- MODULE Spec2Model ----
(***************************************************************************)
(* Verification model of the farm cost-benefit engine of src/app.js (the   *)
(* third application of the file, lines 3363-6407): cash-flow construction,*)
(* discounted metrics, the IRR bisection and the Monte Carlo simulator     *)
(* with the browser callbacks that drive them.                             *)
(*                                                                         *)
(* Numbers.  JavaScript numbers are IEEE doubles; the model keeps them on  *)
(* exact integer grids:                                                    *)
(*   - money is an integer number of money units;                          *)
(*   - adoption and risk fractions are integers in units of 1/FS;          *)
(*   - discount rates are integer percentages;                             *)
(*   - a present value is the exact rational num/den of the discounted sum;*)
(*   - a uniform draw is the top bits of the generator's 32-bit word, k/UD;*)
(*   - a product with a fractional shock and a square root round down to   *)
(*     the grid, where the doubles of the code round to the nearest double.*)
(*   - the rates irr bisects over are integers in hundredths, so a root   *)
(*     off that grid is never met exactly, as a root between two doubles  *)
(*     is not in the code.                                                 *)
(* The undefined sentinel NaN is the record with def = FALSE.              *)
(*                                                                         *)
(* Specifications.  Spec: the simulator and the page callbacks.  SpecCalc: *)
(* the base-case evaluation over a family of loaded projects.  SpecIrr:    *)
(* one call of irr, one loop pass per step.  SpecFlows: the cash-flow      *)
(* ledgers and the treatment summary.  SpecTrial: the trial-data           *)
(* application of lines 1486-3356 with its sensitivity grid.  SpecCba: the *)
(* trial cost-benefit application of lines 12-1470 with its ranking.       *)
(* SpecDep: the depreciation settings of the cost items.  SpecEdits: the   *)
(* add and remove handlers of the four lists.  SpecVar: the variation      *)
(* setting and the simulator.  SpecDebounce: the debounced recalculation,  *)
(* with its timer fair.  SpecIrrRun: SpecIrr with the loops of irr fair.   *)
(***************************************************************************)
EXTENDS Integers, Sequences, FiniteSets, TLC

\* ------------------------------------------------------------------ grids
\* adoption and risk are fractions of 1; the model stores them in quarters
FS == 4
\* a uniform draw in [0,1) is kept to sixteenths: k/UD with k the top bits
UD == 16
\* 2^16: a 32-bit word is the pair <<high half, low half>>
W16 == 65536

Abs(x) == IF x < 0 THEN -x ELSE x
Max2(a, b) == IF a > b THEN a ELSE b
Min2(a, b) == IF a < b THEN a ELSE b

\* clamp = (v, a, b) => Math.max(a, Math.min(b, v))
clamp(v, a, b) == Max2(a, Min2(b, v))

RECURSIVE Pow(_, _)
Pow(b, e) == IF e <= 0 THEN 1 ELSE b * Pow(b, e - 1)

\* Math.sqrt on the grid: the largest r with r*r <= x
RECURSIVE IsqrtFrom(_, _)
IsqrtFrom(x, r) == IF (r + 1) * (r + 1) > x THEN r ELSE IsqrtFrom(x, r + 1)
Isqrt(x) == IF x <= 0 THEN 0 ELSE IsqrtFrom(x, 0)

\* ------------------------------------------------------------- rng (3608)
\* bitwise exclusive or of two bytes, bit by bit
RECURSIVE XorBits(_, _, _)
XorBits(a, b, n) ==
  IF n = 0 THEN 0
  ELSE (((a % 2) + (b % 2)) % 2) + 2 * XorBits(a \div 2, b \div 2, n - 1)

XorByte == [a \in 0..255 |-> [b \in 0..255 |-> XorBits(a, b, 8)]]

Xor16(a, b) ==
  (XorByte[a \div 256][b \div 256] * 256) + XorByte[a % 256][b % 256]

\* x ^ y on 32-bit words
Xor32(x, y) == <<Xor16(x[1], y[1]), Xor16(x[2], y[2])>>

\* x >>> n for 0 < n < 16
Shr32(x, n) ==
  <<x[1] \div Pow(2, n), (x[2] \div Pow(2, n)) + ((x[1] % Pow(2, n)) * Pow(2, 16 - n))>>

\* c | x for a constant c < 64: only the low six bits of x change
Or32(c, x) ==
  LET low == x[2] % 64
  IN  <<x[1], (x[2] - low) + ((low + c + XorByte[low][c]) \div 2)>>

\* (x + y) mod 2^32
Add32(x, y) ==
  LET lo == x[2] + y[2]
  IN  <<(x[1] + y[1] + (lo \div W16)) % W16, lo % W16>>

\* the low 16 bits of a * b, for 16-bit a and b
MulLo16(a, b) == (((a % 256) * b) + ((((a \div 256) * b) % 256) * 256)) % W16

\* Math.imul: the low 32 bits of x * y
Imul32(x, y) ==
  LET p0 == (x[2] % 256) * y[2]
      p1 == (x[2] \div 256) * y[2]
      lo == p0 + ((p1 % 256) * 256)
  IN  <<((lo \div W16) + (p1 \div 256) + MulLo16(x[1], y[2]) + MulLo16(x[2], y[1])) % W16,
        lo % W16>>

\* 0x6d2b79f5
RngIncrement == <<27947, 31221>>

\* t += 0x6d2b79f5 (the generator's state after one call; t stays an exact
\* integer in the double for the 2^21 calls a run can make, so t mod 2^32)
RngAdvance(t) == Add32(t, RngIncrement)

\* the 32-bit word one call returns before the division by 4294967296
RngWord(t1) ==
  LET x1 == Imul32(Xor32(t1, Shr32(t1, 15)), Or32(1, t1))
      x2 == Xor32(x1, Add32(x1, Imul32(Xor32(x1, Shr32(x1, 7)), Or32(61, x1))))
  IN  Xor32(x2, Shr32(x2, 14))

\* rand(): the draw word / 2^32, kept to k/UD
RngDraw(t1) == RngWord(t1)[1] \div (W16 \div UD)

\* triangular(r, a, c, b) for the draw r = k/UD and low a <= mode c <= high b.
\* F = (c - a) / (b - a) is NaN when a = b = c, and r < NaN is false.
triangular(k, a, c, b) ==
  IF b > a /\ k * (b - a) < UD * (c - a)
    THEN a + Isqrt((k * (b - a) * (c - a)) \div UD)
    ELSE b - Isqrt(((UD - k) * (b - a) * (b - c)) \div UD)

\* ------------------------------------------------------------ the undefined
NaN == [def |-> FALSE, num |-> 0, den |-> 1]
Ratio(n, d) == [def |-> TRUE, num |-> n, den |-> d]

\* ---------------------------------------------------------------- cashflows
RECURSIVE SumFn(_, _, _)
SumFn(f, lo, hi) == IF lo > hi THEN 0 ELSE f[lo] + SumFn(f, lo + 1, hi)

\* Number(t.deltas[o.id]) || 0: a missing key counts 0
Delta(t, id) == IF id \in DOMAIN t.deltas THEN t.deltas[id] ELSE 0

\* Number(x) || fallback
OrElse(x, fallback) == IF x = 0 THEN fallback ELSE x

\* the amount one benefit item accrues in a year of its window (4203-4226)
BenefitAmount(b) ==
  CASE b.category \in {"C1", "C2"} -> b.unitValue * b.quantity
    [] b.category = "C3" -> b.unitValue * b.abatement
    [] b.category \in {"C4", "C5", "C8"} -> b.annualAmount
    [] b.category = "C7" -> (Max2(b.p0 - b.p1, 0) * b.consequence) \div 100
    [] OTHER -> 0

\* line 4176: A = linkA ? clamp(adoptMul, 0, 1) : 1, in units of 1/FS
LinkAdoption(b, adoptMul) == IF b.linkAdoption THEN clamp(adoptMul, 0, FS) ELSE FS

\* the risk factor if every item were derated, linked or not
LinkRisk_Always(b, risk) == FS - clamp(risk, 0, FS)

\* line 4177: R = linkR ? 1 - clamp(risk, 0, 1) : 1, in units of 1/FS
LinkRisk(b, risk) == IF b.linkRisk THEN FS - clamp(risk, 0, FS) ELSE FS

\* what one benefit item adds at cash-flow index idx, in units of 1/FS^2
BenefitAt(b, idx, N, baseYear, adoptMul, risk) ==
  LET A == LinkAdoption(b, adoptMul)
      R == LinkRisk(b, risk)
      sy == OrElse(b.startYear, baseYear)
      ey == OrElse(b.endYear, sy)
      yr == OrElse(b.year, sy)
      y == idx + baseYear - 1
  IN  IF b.frequency = "Once" \/ b.category = "C6"
        THEN IF idx = yr - baseYear + 1 /\ idx >= 0 /\ idx <= N
               THEN b.annualAmount * A * R ELSE 0
        ELSE IF y >= sy /\ y <= ey /\ idx >= 1 /\ idx <= N
               THEN ((BenefitAmount(b) * Pow(100 + b.growthPct, y - sy))
                       \div Pow(100, y - sy)) * A * R
               ELSE 0

additionalBenefitsSeries(m, N, baseYear, adoptMul, risk) ==
  [idx \in 0..N |->
     SumFn([i \in 1..Len(m.benefits) |->
              BenefitAt(m.benefits[i], idx, N, baseYear, adoptMul, risk)],
           1, Len(m.benefits))]

\* per-hectare value of a treatment: sum over outputs of delta * value
ValuePerHa(m, t) ==
  SumFn([i \in 1..Len(m.outputs) |->
           Delta(t, m.outputs[i].id) * m.outputs[i].value], 1, Len(m.outputs))

\* annual benefit of one treatment, in units of 1/FS^2
TreatBenefit(m, t, adoptMul, risk) ==
  ValuePerHa(m, t) * t.area * (FS - clamp(risk, 0, FS)) * clamp(adoptMul, 0, FS)

\* the recurring cost if the per-hectare costs were not scaled by the area
TreatOpCost_IgnoresArea(t) == t.materialsCost + t.servicesCost + t.labourCost

\* lines 4262-4266: the recurring cost of one treatment in a year
TreatOpCost(t) == (t.materialsCost + t.servicesCost + t.labourCost) * t.area

\* the same if a capital item outside the horizon were moved to its boundary
OtherCostAt_Clamped(c, idx, N, baseYear) ==
  LET sy == OrElse(c.startYear, baseYear)
      ey == OrElse(c.endYear, sy)
      cy == OrElse(c.year, baseYear)
      y == idx + baseYear - 1
  IN  IF c.type = "annual"
        THEN IF y >= sy /\ y <= ey /\ idx >= 1 /\ idx <= N THEN c.annual ELSE 0
        ELSE IF c.type = "capital" /\ idx = clamp(cy - baseYear, 0, N)
               THEN c.capital ELSE 0

\* the same if a capital item with a depreciation method were posted as its
\* straight-line schedule instead of its lump
OtherCostAt_Depreciated(c, idx, N, baseYear) ==
  LET sy == OrElse(c.startYear, baseYear)
      ey == OrElse(c.endYear, sy)
      cy == OrElse(c.year, baseYear)
      y == idx + baseYear - 1
      life == Max2(1, OrElse(c.depLife, 5))
  IN  IF c.type = "annual"
        THEN IF y >= sy /\ y <= ey /\ idx >= 1 /\ idx <= N THEN c.annual ELSE 0
        ELSE IF c.type = "capital" /\ c.depMethod = "none"
               THEN IF idx = cy - baseYear /\ idx >= 0 /\ idx <= N THEN c.capital ELSE 0
        ELSE IF c.type = "capital"
               THEN IF idx >= cy - baseYear /\ idx < cy - baseYear + life /\ idx <= N
                      THEN c.capital \div life ELSE 0
               ELSE 0

\* what one other-cost item adds to costByYear at index idx (4288-4311)
OtherCostAt(c, idx, N, baseYear) ==
  LET sy == OrElse(c.startYear, baseYear)
      ey == OrElse(c.endYear, sy)
      cy == OrElse(c.year, baseYear)
      y == idx + baseYear - 1
  IN  IF c.type = "annual"
        THEN IF y >= sy /\ y <= ey /\ idx >= 1 /\ idx <= N THEN c.annual ELSE 0
        ELSE IF c.type = "capital"
               THEN IF idx = cy - baseYear /\ idx >= 0 /\ idx <= N
                      THEN c.capital ELSE 0
               ELSE 0

\* new Array(N + 1) throws a RangeError for a negative length
ThrowsRangeError(m) == m.time.years + 1 < 0

buildCashflows(m, adoptMul, risk) ==
  LET N == m.time.years
      baseYear == m.time.startYear
      nT == Len(m.treatments)
      nC == Len(m.otherCosts)
      annualBenefit ==
        SumFn([i \in 1..nT |-> TreatBenefit(m, m.treatments[i], adoptMul, risk)], 1, nT)
      opCost(only) ==
        SumFn([i \in 1..nT |->
                 IF only => m.treatments[i].constrained
                   THEN TreatOpCost(m.treatments[i]) ELSE 0], 1, nT)
      capitalY0(only) ==
        SumFn([i \in 1..nT |->
                 IF only => m.treatments[i].constrained
                   THEN m.treatments[i].capitalCost ELSE 0], 1, nT)
      other(only, idx) ==
        SumFn([i \in 1..nC |->
                 IF only => m.otherCosts[i].constrained
                   THEN OtherCostAt(m.otherCosts[i], idx, N, baseYear) ELSE 0], 1, nC)
      cost(only) ==
        [idx \in 0..N |->
           FS * FS * ((IF idx = 0 THEN capitalY0(only) ELSE opCost(only)) + other(only, idx))]
      extra == additionalBenefitsSeries(m, N, baseYear, adoptMul, risk)
      benefitByYear == [idx \in 0..N |-> (IF idx = 0 THEN 0 ELSE annualBenefit) + extra[idx]]
      costByYear == cost(FALSE)
  IN  [benefitByYear |-> benefitByYear,
       costByYear |-> costByYear,
       constrainedCostByYear |-> cost(TRUE),
       cf |-> [idx \in 0..N |-> benefitByYear[idx] - costByYear[idx]]]

\* presentValue: the sum of series[t] / (1 + ratePct/100)^t, as the exact
\* fraction num / den with den = (100 + ratePct)^(length - 1)
presentValue(series, ratePct) ==
  LET n == Cardinality(DOMAIN series) - 1
  IN  [num |-> SumFn([t \in 0..n |->
                        series[t] * Pow(100, t) * Pow(100 + ratePct, n - t)], 0, n),
       den |-> Pow(100 + ratePct, n)]

\* the denominator if the mode were ignored
bcrDenominator_AlwaysConstrained(bcrMode, pvCosts, pvCostsConstrained) ==
  pvCostsConstrained

\* line 4401: the denominator of the BCR in the configured mode
bcrDenominator(bcrMode, pvCosts, pvCostsConstrained) ==
  IF bcrMode = "constrained" THEN pvCostsConstrained ELSE pvCosts

\* the ratio if only a zero denominator were guarded
bcrOf_NonZeroDenominator(pvBenefits, denom) ==
  IF denom.num # 0 THEN Ratio(pvBenefits.num, denom.num) ELSE NaN

\* line 4402: bcr = denom > 0 ? pvBenefits / denom : NaN, for two present
\* values over the same denominator
bcrOf(pvBenefits, denom) ==
  IF denom.num > 0 THEN Ratio(pvBenefits.num, denom.num) ELSE NaN

\* line 4406: roi = pvCosts > 0 ? (npv / pvCosts) * 100 : NaN, kept as a fraction
roiOf(npv, pvCosts) ==
  IF pvCosts.num > 0 THEN Ratio(npv.num, pvCosts.num) ELSE NaN

\* computeAll without irrVal, mirrVal and paybackYears
computeAll(m, rate, adoptMul, risk, bcrMode) ==
  LET flows == buildCashflows(m, adoptMul, risk)
      pvBenefits == presentValue(flows.benefitByYear, rate)
      pvCosts == presentValue(flows.costByYear, rate)
      pvCostsConstrained == presentValue(flows.constrainedCostByYear, rate)
      denom == bcrDenominator(bcrMode, pvCosts, pvCostsConstrained)
      npv == Ratio(pvBenefits.num - pvCosts.num, pvBenefits.den)
  IN  [pvBenefits |-> pvBenefits,
       pvCosts |-> pvCosts,
       pvCostsConstrained |-> pvCostsConstrained,
       npv |-> npv,
       bcr |-> bcrOf(pvBenefits, denom),
       roi |-> roiOf(npv, pvCosts),
       cf |-> flows.cf,
       benefitByYear |-> flows.benefitByYear,
       costByYear |-> flows.costByYear]

\* ------------------------------------------------------------ runSimulation
\* the number of passes if there were no floor of 100
SimRuns_NoFloor(m) == OrElse(m.sim.n, 1000)

\* N = Math.max(100, Number(model.sim.n) || 1000)
SimRuns(m) == Max2(100, OrElse(m.sim.n, 1000))

\* the variation if 0 fell back to 20 as in the input handler
VarPct_Default20(m) == OrElse(m.sim.variationPct, 20)

\* varPct = (model.sim.variationPct || 0) / 100, kept in percent
VarPct(m) == OrElse(m.sim.variationPct, 0)

\* the shock 1 + (rand() * 2 * varPct - varPct) for the draw k/UD, over ShockDen
ShockDen == 100 * UD
ShockNum(k, varPct) == ShockDen + (2 * k - UD) * varPct

\* base * shock, rounded down to the money grid
Shocked(base, num) == (base * num) \div ShockDen

\* (x >>> 0) of a small non-negative number
ToUint32(v) == <<(v \div W16) % W16, v % W16>>

\* rng(seed): t = (seed || Math.floor(Math.random() * 2 ** 31)) >>> 0;
\* a missing seed and the seed 0 are both falsy
rngSeed(seed, random) ==
  IF seed.given /\ seed.value # 0 THEN ToUint32(seed.value) ELSE ToUint32(random)

\* lines 5878-5900: the model with the three shocks applied to the base values
ApplyShocks(m, sOut, sTreat, sOther) ==
  [m EXCEPT
     !.outputs = [i \in 1..Len(m.outputs) |->
        IF m.sim.varyOutputs
          THEN [m.outputs[i] EXCEPT !.value = Shocked(@, sOut)] ELSE m.outputs[i]],
     !.treatments = [i \in 1..Len(m.treatments) |->
        IF m.sim.varyTreatCosts
          THEN [m.treatments[i] EXCEPT !.materialsCost = Shocked(@, sTreat),
                                       !.servicesCost = Shocked(@, sTreat),
                                       !.labourCost = Shocked(@, sTreat)]
          ELSE m.treatments[i]],
     !.otherCosts = [i \in 1..Len(m.otherCosts) |->
        IF m.sim.varyInputCosts
          THEN [m.otherCosts[i] EXCEPT !.annual = Shocked(@, sOther),
                                       !.capital = Shocked(@, sOther)]
          ELSE m.otherCosts[i]]]

\* one pass of the sampling loop body (5867-5911) from generator state t:
\* the draws, the shocked model and the generator state after the pass
SimDraw(m, t) ==
  LET t1 == RngAdvance(t)
      t2 == RngAdvance(t1)
      t3 == RngAdvance(t2)
      disc == triangular(RngDraw(t1), m.time.discLow, m.time.discBase, m.time.discHigh)
      adoptMul == clamp(triangular(RngDraw(t2), m.adoption.low, m.adoption.base,
                                   m.adoption.high), 0, FS)
      risk == clamp(triangular(RngDraw(t3), m.risk.low, m.risk.base, m.risk.high), 0, FS)
      t4 == IF m.sim.varyOutputs THEN RngAdvance(t3) ELSE t3
      t5 == IF m.sim.varyTreatCosts THEN RngAdvance(t4) ELSE t4
      t6 == IF m.sim.varyInputCosts THEN RngAdvance(t5) ELSE t5
      sOut == IF m.sim.varyOutputs THEN ShockNum(RngDraw(t4), VarPct(m)) ELSE ShockDen
      sTreat == IF m.sim.varyTreatCosts THEN ShockNum(RngDraw(t5), VarPct(m)) ELSE ShockDen
      sOther == IF m.sim.varyInputCosts THEN ShockNum(RngDraw(t6), VarPct(m)) ELSE ShockDen
  IN  [disc |-> disc, adoptMul |-> adoptMul, risk |-> risk,
       shocked |-> ApplyShocks(m, sOut, sTreat, sOther), next |-> t6]

\* the SimulationRecord of one pass: details.push({...}) at 5905
SimRecord(d, bcrMode) ==
  LET all == computeAll(d.shocked, d.disc, d.adoptMul, d.risk, bcrMode)
  IN  [discountRatePct |-> d.disc, adoptionMultiplier |-> d.adoptMul,
       riskMultiplier |-> d.risk, npv |-> all.npv, bcr |-> all.bcr]

\* every rand() adds 0x6d2b79f5 to t, so j calls leave t + j * 0x6d2b79f5
RngSkip(t, j) == Add32(t, Imul32(ToUint32(j), RngIncrement))

\* rand() calls of one pass: three draws and one per enabled shock
CallsPerPass(m) ==
  3 + (IF m.sim.varyOutputs THEN 1 ELSE 0) + (IF m.sim.varyTreatCosts THEN 1 ELSE 0)
    + (IF m.sim.varyInputCosts THEN 1 ELSE 0)

\* for (let i = 0; i < N; i++): pass i starts from the state i passes leave
SimLoop(m, t, N) ==
  [i \in 1..N |-> SimRecord(SimDraw(m, RngSkip(t, (i - 1) * CallsPerPass(m))), m.sim.bcrMode)]

\* arr.filter(v => isFinite(v)).length
CountFinite(arr) == Cardinality({i \in DOMAIN arr : arr[i].def})

\* arr.filter(v => isFinite(v) && v > x).length
CountAbove(arr, x) ==
  Cardinality({i \in DOMAIN arr : arr[i].def /\ arr[i].num > x * arr[i].den})

\* bcrs.filter(v => isFinite(v) && v > x).length / bcrs.length || 0
ProbBcrAbove(bcrs, x) ==
  IF Len(bcrs) = 0 THEN Ratio(0, 1)
  ELSE Ratio(CountAbove(bcrs, x), Len(bcrs))

\* summaryStats(arr).probPos: over the finite values only
ProbPos(arr) ==
  LET clean == CountFinite(arr)
  IN  IF clean = 0 THEN NaN ELSE Ratio(CountAbove(arr, 0), clean)

\* ---------------------------------------------------------------------- irr
\* rates of the root search are kept in hundredths: lo = -0.99, hi = 5.0
IrrLo == -99
IrrHi == 500
\* the bisection budget and the bracket-expansion budget
IrrMaxIter == 80
IrrMaxExpand == 20
\* 1 / 1e-8, the tolerance on |NPV(mid)|
IrrTolInv == 100000000

\* npvAt(r) = sum of v / (1 + r)^t as the exact fraction num / den, r in hundredths
npvAt(cf, r) ==
  LET n == Cardinality(DOMAIN cf) - 1
  IN  [num |-> SumFn([t \in 0..n |-> cf[t] * Pow(100, t) * Pow(100 + r, n - t)], 0, n),
       den |-> Pow(100 + r, n)]

Sign(x) == IF x > 0 THEN 1 ELSE IF x < 0 THEN -1 ELSE 0

\* Math.abs(nMid) < 1e-8, for cash flows in units of 1/FS^2
IrrConverged(nMid) == Abs(nMid.num) <= ((nMid.den * FS * FS) - 1) \div IrrTolInv

\* lines 4338-4346: the precondition and the first bracket
IrrStart(cf) ==
  LET hasPos == \E t \in DOMAIN cf : cf[t] > 0
      hasNeg == \E t \in DOMAIN cf : cf[t] < 0
      nLo == Sign(npvAt(cf, IrrLo).num)
      nHi == Sign(npvAt(cf, IrrHi).num)
  IN  IF ~hasPos \/ ~hasNeg
        THEN [pc |-> "done", cf |-> cf, lo |-> IrrLo, hi |-> IrrHi, nLo |-> 0, nHi |-> 0,
              k |-> 0, i |-> 0, result |-> NaN]
        ELSE [pc |-> IF nLo * nHi > 0 THEN "expand" ELSE "bisect", cf |-> cf,
              lo |-> IrrLo, hi |-> IrrHi, nLo |-> nLo, nHi |-> nHi,
              k |-> 0, i |-> 0, result |-> NaN]

\* the expansion loop if it had no budget
IrrExpandStep_Unbounded(st) ==
  IF st.nLo * st.nHi > 0
    THEN LET hi == (st.hi * 3) \div 2
         IN  [st EXCEPT !.hi = hi, !.nHi = Sign(npvAt(st.cf, hi).num), !.k = st.k + 1]
    ELSE [st EXCEPT !.pc = "bisect"]

\* lines 4347-4351: one pass of the expansion loop, or its exit
IrrExpandStep(st) ==
  IF st.k < IrrMaxExpand /\ st.nLo * st.nHi > 0
    THEN LET hi == (st.hi * 3) \div 2
         IN  [st EXCEPT !.hi = hi, !.nHi = Sign(npvAt(st.cf, hi).num), !.k = st.k + 1]
    ELSE IF st.nLo * st.nHi > 0
           THEN [st EXCEPT !.pc = "done", !.result = NaN]
           ELSE [st EXCEPT !.pc = "bisect"]

\* lines 4353-4365: one pass of the bisection loop, or the return after it
IrrBisectStep(st) ==
  IF st.i < IrrMaxIter
    THEN LET mid == (st.lo + st.hi) \div 2
             nMid == npvAt(st.cf, mid)
         IN  IF IrrConverged(nMid)
               THEN [st EXCEPT !.pc = "done", !.result = Ratio(mid, 1)]
               ELSE IF st.nLo * Sign(nMid.num) <= 0
                      THEN [st EXCEPT !.hi = mid, !.nHi = Sign(nMid.num), !.i = st.i + 1]
                      ELSE [st EXCEPT !.lo = mid, !.nLo = Sign(nMid.num), !.i = st.i + 1]
    ELSE [st EXCEPT !.pc = "done", !.result = Ratio((st.lo + st.hi) \div 2, 1)]

IrrStep(st) == IF st.pc = "expand" THEN IrrExpandStep(st) ELSE IrrBisectStep(st)

RECURSIVE IrrRun(_)
IrrRun(st) == IF st.pc = "done" THEN st.result ELSE IrrRun(IrrStep(st))

\* irr(cf): the rate in percent, or NaN
irr(cf) == IrrRun(IrrStart(cf))

\* the term cf[t] / (1 + ratePct/100)^t of a series of indices 0..n, over the
\* common denominator (100 + ratePct)^n; the rate is above -100 percent
DiscountedTerm(cf, ratePct, t) ==
  LET n == Cardinality(DOMAIN cf) - 1
  IN  cf[t] * Pow(100, t) * Pow(100 + ratePct, n - t)

\* the loop of payback from index 1 on, which never tests year zero
RECURSIVE paybackLoop_SkipsYearZero(_, _, _, _)
paybackLoop_SkipsYearZero(cf, ratePct, t, cum) ==
  IF t >= Cardinality(DOMAIN cf) THEN -1
  ELSE LET next == cum + DiscountedTerm(cf, ratePct, t)
       IN  IF next >= 0 /\ t > 0 THEN t
           ELSE paybackLoop_SkipsYearZero(cf, ratePct, t + 1, next)

\* lines 4386-4389: the passes of the loop from index t on with the running
\* sum cum; -1 stands for the null of line 4390
RECURSIVE paybackLoop(_, _, _, _)
paybackLoop(cf, ratePct, t, cum) ==
  IF t >= Cardinality(DOMAIN cf) THEN -1
  ELSE LET next == cum + DiscountedTerm(cf, ratePct, t)
       IN  IF next >= 0 THEN t ELSE paybackLoop(cf, ratePct, t + 1, next)

\* payback(cf, ratePct) (4384-4391)
payback(cf, ratePct) == paybackLoop(cf, ratePct, 0, 0)

\* --------------------------------------------------------------------- state
VARIABLES
  model,        \* the shared mutable model object (3383), without the next two
  simResults,   \* model.sim.results: the npv and bcr arrays of the last run
  simDetails,   \* model.sim.details: the records of the last run
  pendingSims,  \* runSimulation calls waiting on their setTimeout (5833)
  debTimer,     \* the timers of calcAndRenderDebounced that are set and have not fired
  simStatus,    \* the text of #simStatus: "", "running" or "complete"
  simOut,       \* the probabilities runSimulation last displayed
  display,      \* what calcAndRender last displayed
  lastAct,      \* the callback that ran last
  preRun,       \* the shockable values runSimulation snapshotted last (5855-5864)
  intended,     \* the shockable values as loaded or last entered by the user
  lastInputs,   \* the inputs of the last completed run
  prevRun,      \* the inputs and details of the completed run before the last
  irrSt,        \* the locals of a call of irr that is followed step by step
  edits,        \* input events so far
  started,      \* Run-simulation clicks so far
  page,         \* the click listeners on the three list roots, the confirm
                \* prompts the last click on a Remove button raised, and the
                \* value last typed into #simVarPct
  trialState,   \* the state object of the trial-data application (1491-1512)
  cbaState      \* the state object of the trial cost-benefit application (19-40)

\* the variables of the engine and its page
engineVars == <<model, simResults, simDetails, pendingSims, debTimer, simStatus, simOut, display,
                lastAct, preRun, intended, lastInputs, prevRun, irrSt, edits, started>>

\* the variables of the data applications, which no engine callback touches
dataVars == <<trialState, cbaState>>

vars == <<engineVars, page, dataVars>>

\* bound of the exploration: input events and Run-simulation clicks together
MaxEvents == 3

\* Math.floor(Math.random() * 2 ** 31): the values the model lets it take
RandomSeeds == {11, 12}

\* the values runSimulation shocks and restores
Shockables(m) ==
  [outputs |-> [i \in 1..Len(m.outputs) |-> m.outputs[i].value],
   treatments |-> [i \in 1..Len(m.treatments) |->
      [materials |-> m.treatments[i].materialsCost,
       services |-> m.treatments[i].servicesCost,
       labour |-> m.treatments[i].labourCost]],
   otherCosts |-> [i \in 1..Len(m.otherCosts) |->
      [annual |-> m.otherCosts[i].annual, capital |-> m.otherCosts[i].capital]]]

\* lines 5914-5928: write the snapshot back
RestoreBase(m, base) ==
  [m EXCEPT
     !.outputs = [i \in 1..Len(m.outputs) |->
        [m.outputs[i] EXCEPT !.value = base.outputs[i]]],
     !.treatments = [i \in 1..Len(m.treatments) |->
        [m.treatments[i] EXCEPT !.materialsCost = base.treatments[i].materials,
                                !.servicesCost = base.treatments[i].services,
                                !.labourCost = base.treatments[i].labour]],
     !.otherCosts = [i \in 1..Len(m.otherCosts) |->
        [m.otherCosts[i] EXCEPT !.annual = base.otherCosts[i].annual,
                                !.capital = base.otherCosts[i].capital]]]

\* model.treatments.find(t => t.isControl): its id, or 0 when none is flagged
FindControl(m) ==
  LET flagged == {i \in 1..Len(m.treatments) : m.treatments[i].isControl}
  IN  IF flagged = {} THEN 0
      ELSE m.treatments[CHOOSE i \in flagged : \A j \in flagged : i <= j].id

\* annuityFactor (3599-3602) as the exact fraction num / den
annuityFactor(N, ratePct) ==
  IF ratePct = 0 THEN [num |-> N, den |-> 1]
  ELSE [num |-> 100 * (Pow(100 + ratePct, N) - Pow(100, N)),
        den |-> ratePct * Pow(100 + ratePct, N)]

\* the sign of a/b - c/d for positive b and d, by the continued fractions of
\* the two quotients, so that no product is formed
RECURSIVE RatioCmp(_, _, _, _)
RatioCmp(a, b, c, d) ==
  IF a \div b # c \div d THEN (IF a \div b > c \div d THEN 1 ELSE -1)
  ELSE IF a % b = 0 /\ c % d = 0 THEN 0
  ELSE IF a % b = 0 THEN -1
  ELSE IF c % d = 0 THEN 1
  ELSE -RatioCmp(b, a % b, d, c % d)

\* computeSingleTreatmentMetrics (5461-5489) without irrVal, mirrVal, gm, gpm
\* and pb; amounts in units of 1/FS^2
computeSingleTreatmentMetrics(m, t, rate, years, adoptMul, risk) ==
  LET annualBen == TreatBenefit(m, t, adoptMul, risk)
      annualCost == TreatOpCost(t) * FS * FS
      cap == t.capitalCost * FS * FS
      af == annuityFactor(years, rate)
      pvBen == Ratio(annualBen * af.num, af.den)
      pvCost == Ratio(cap * af.den + annualCost * af.num, af.den)
  IN  [pvBen |-> pvBen, pvCost |-> pvCost,
       bcr |-> IF pvCost.num > 0 THEN Ratio(pvBen.num, pvCost.num) ELSE NaN,
       npv |-> Ratio(pvBen.num - pvCost.num, af.den)]

\* the comparator of lines 5506-5510 puts b before a when it is positive: a
\* BCR that is not finite counts as -Infinity
BcrAtLeast(a, b) ==
  ~b.m.bcr.def
  \/ (a.m.bcr.def /\ RatioCmp(a.m.bcr.num, a.m.bcr.den, b.m.bcr.num, b.m.bcr.den) >= 0)

\* list.sort (5506-5510): a stable sort by descending BCR
RECURSIVE SortByBcr(_)
SortByBcr(s) ==
  IF s = <<>> THEN <<>>
  ELSE LET front == SortByBcr(SubSeq(s, 1, Len(s) - 1))
           x == s[Len(s)]
           pos == Cardinality({i \in 1..Len(front) : BcrAtLeast(front[i], x)})
       IN  SubSeq(front, 1, pos) \o <<x>> \o SubSeq(front, pos + 1, Len(front))

\* renderTreatmentSummary (5491-5542): the rows of #treatmentSummary in the
\* order shown; the rank shown in a row is its position
renderTreatmentSummary(m, rate, adoptMul, risk) ==
  SortByBcr([i \in 1..Len(m.treatments) |->
               [t |-> m.treatments[i].id,
                m |-> computeSingleTreatmentMetrics(m, m.treatments[i], rate, m.time.years,
                                                    adoptMul, risk)]])

\* lines 5636-5646: the passes of the declining-balance loop from pass i on;
\* the book value is bookNum / bookDen.  The result is the depreciation of
\* the first pass whose index lies in 0..N and whose amount is positive
RECURSIVE DecliningFirst(_, _, _, _, _, _, _)
DecliningFirst(i, life, rate, startIndex, N, bookNum, bookDen) ==
  IF i >= life THEN Ratio(0, 1)
  ELSE LET depNum == bookNum * rate
           depDen == bookDen * 100
           idx == startIndex + i
           nextNum == (bookNum * 100) - depNum
       IN  IF idx >= 0 /\ idx <= N /\ depNum > 0 THEN Ratio(depNum, depDen)
           ELSE IF nextNum <= 0 THEN Ratio(0, 1)
           ELSE DecliningFirst(i + 1, life, rate, startIndex, N, nextNum, depDen)

\* lines 5629-5635: the straight-line schedule posts cost / life at the
\* indices startIndex .. startIndex + life - 1 that lie in 0..N
StraightFirst(cost, life, startIndex, N) ==
  IF cost > 0 /\ (\E i \in 0..(life - 1) : startIndex + i >= 0 /\ startIndex + i <= N)
    THEN Ratio(cost, life) ELSE Ratio(0, 1)

\* the body of the forEach of lines 5622-5656 for one cost item: its row of
\* the schedule, or no row
DepreciationRow(c, N, baseYear) ==
  LET method == c.depMethod
      cost == c.capital
      life == Max2(1, OrElse(c.depLife, 5))
      rate == OrElse(c.depRate, 30)
      startIndex == OrElse(c.year, baseYear) - baseYear
  IN  IF c.category # "Capital" \/ method = "none" \/ cost = 0 THEN <<>>
      ELSE <<[method |-> method, life |-> life,
              rate |-> IF method = "declining" THEN rate ELSE 0,
              firstDep |-> IF method = "straight"
                             THEN StraightFirst(cost, life, startIndex, N)
                           ELSE IF method = "declining"
                             THEN DecliningFirst(0, life, rate, startIndex, N, cost, 1)
                           ELSE Ratio(0, 1)]>>

\* renderDepreciationSummary (5613-5694): the rows of #depSummary; it reads
\* the model and writes the page only
RECURSIVE DepreciationRows(_, _, _, _)
DepreciationRows(costs, k, N, baseYear) ==
  IF k > Len(costs) THEN <<>>
  ELSE DepreciationRow(costs[k], N, baseYear) \o DepreciationRows(costs, k + 1, N, baseYear)

renderDepreciationSummary(m) ==
  DepreciationRows(m.otherCosts, 1, m.time.years, m.time.startYear)

\* lines 5758-5826 of calcAndRender: what it puts on the page from the model
\* and from the result `all` of computeAll
RenderResult(m, all) ==
  [outcome |-> "results", pvBenefits |-> all.pvBenefits, pvCosts |-> all.pvCosts,
   pvCostsConstrained |-> all.pvCostsConstrained, npv |-> all.npv,
   bcr |-> all.bcr, roi |-> all.roi, irrVal |-> irr(all.cf),
   paybackYears |-> payback(all.cf, m.time.discBase), rate |-> m.time.discBase,
   control |-> FindControl(m),
   bcrMode |-> m.sim.bcrMode,
   read |-> Shockables(m),
   benefitByYear |-> all.benefitByYear, costByYear |-> all.costByYear,
   treatmentSummary |->
     renderTreatmentSummary(m, m.time.discBase, m.adoption.base, m.risk.base),
   depSummary |-> renderDepreciationSummary(m)]

\* calcAndRender (5751-5827): what it puts on the page from the model it reads
CalcResult(m) ==
  RenderResult(m, computeAll(m, m.time.discBase, m.adoption.base, m.risk.base,
                             m.sim.bcrMode))

\* calcAndRender as a step: computeAll throws before anything is displayed
calcAndRender ==
  /\ display' = IF ThrowsRangeError(model) THEN display ELSE CalcResult(model)
  /\ lastAct' = IF ThrowsRangeError(model) THEN "calcAndRenderThrew" ELSE "calcAndRender"

\* ------------------------------------------------------------------ the page
\* after DOMContentLoaded (6394-6403): renderAll has run once, so each list
\* root carries one click listener, no Remove button has been clicked and
\* nothing has been typed into #simVarPct
PageInit ==
  [listeners |-> [treatments |-> 1, benefits |-> 1, costs |-> 1], prompts |-> 0,
   simVarPct |-> [entered |-> FALSE, value |-> 0]]

\* renderTreatments, renderBenefits or renderCosts has run n more times: each
\* run ends with root.addEventListener("click", ...) on the same root
\* (5203, 5305, 5394), and nothing removes a listener
Rendered(p, list, n) == [p EXCEPT !.listeners[list] = @ + n]

\* one click on a Remove button of the list: every listener registered on the
\* root before the click runs its handler, and each handler raises its
\* confirm prompt; a confirmed handler renders the list again
RemoveClicked(p, list, confirmed) ==
  LET n == p.listeners[list]
  IN  [Rendered(p, list, IF confirmed THEN n ELSE 0) EXCEPT !.prompts = n]

\* --------------------------------------------------------------------- actions
\* click on #recalc (4506-4513)
ClickRecalc ==
  /\ calcAndRender
  /\ UNCHANGED <<model, simResults, simDetails, pendingSims, debTimer, simStatus,
                 simOut, preRun, intended, lastInputs, prevRun, irrSt, edits, started>>
  /\ UNCHANGED <<dataVars, page>>

\* calcAndRenderDebounced (5745-5749): clearTimeout cancels the timer the
\* variable refers to, the one set last, if it has not fired; setTimeout sets
\* a new one
calcAndRenderDebounced(pending) == (IF pending > 0 THEN pending - 1 ELSE 0) + 1

\* the debounce timer fires (5745-5749)
DebounceFire ==
  /\ debTimer > 0
  /\ debTimer' = debTimer - 1
  /\ calcAndRender
  /\ UNCHANGED <<model, simResults, simDetails, pendingSims, simStatus, simOut,
                 preRun, intended, lastInputs, prevRun, irrSt, edits, started>>
  /\ UNCHANGED <<dataVars, page>>

\* the input handler of bindBasics (4640-4805) for an event carrying one of
\* the given <<id, value>> pairs
InputEvent(values) ==
  /\ edits + started < MaxEvents
  /\ \E iv \in values :
       /\ model' = CASE iv[1] = "years" -> [model EXCEPT !.time.years = iv[2]]
                  [] iv[1] = "discBase" -> [model EXCEPT !.time.discBase = iv[2]]
                  [] iv[1] = "bcrMode" -> [model EXCEPT !.sim.bcrMode = iv[2]]
                  [] iv[1] = "simN" -> [model EXCEPT !.sim.n = iv[2]]
                  [] iv[1] = "randSeed" ->
                       [model EXCEPT !.sim.seed = [given |-> TRUE, value |-> iv[2]]]
                  [] iv[1] = "simVarPct" ->
                       [model EXCEPT !.sim.variationPct = OrElse(iv[2], 20)]
       /\ page' = IF iv[1] = "simVarPct"
                    THEN [page EXCEPT !.simVarPct = [entered |-> TRUE, value |-> iv[2]]]
                    ELSE page
  /\ debTimer' = calcAndRenderDebounced(debTimer)
  /\ edits' = edits + 1
  /\ lastAct' = "input"
  /\ UNCHANGED <<simResults, simDetails, pendingSims, simStatus, simOut, display,
                 preRun, intended, lastInputs, prevRun, irrSt, started>>
  /\ UNCHANGED dataVars

\* input events on the simulation settings and the horizon
InputBasics == InputEvent({<<"years", -2>>, <<"years", 2>>, <<"randSeed", 0>>})

\* input events on the BCR mode and the base discount rate
InputCalc == InputEvent({<<"bcrMode", "all">>, <<"bcrMode", "constrained">>,
                         <<"discBase", 0>>})

\* the same change if the other flags were left as they are
ControlToggle_KeepsFlags ==
  /\ edits + started < MaxEvents
  /\ \E k \in 1..Len(model.treatments), val \in BOOLEAN :
       model' = [model EXCEPT !.treatments[k].isControl = val]
  /\ debTimer' = calcAndRenderDebounced(debTimer)
  /\ edits' = edits + 1
  /\ lastAct' = "controlToggle"
  /\ page' = Rendered(page, "treatments", 1)
  /\ UNCHANGED <<simResults, simDetails, pendingSims, simStatus, simOut, display,
                 preRun, intended, lastInputs, prevRun, irrSt, started>>
  /\ UNCHANGED dataVars

\* change of a treatment's isControl select (5168-5177): every flag is
\* cleared, then the treatment is flagged when the value is "control"
ControlToggle ==
  /\ edits + started < MaxEvents
  /\ \E k \in 1..Len(model.treatments), val \in BOOLEAN :
       model' = [model EXCEPT !.treatments =
                   [i \in 1..Len(model.treatments) |->
                      [model.treatments[i] EXCEPT !.isControl = (val /\ i = k)]]]
  /\ debTimer' = calcAndRenderDebounced(debTimer)
  /\ edits' = edits + 1
  /\ lastAct' = "controlToggle"
  /\ page' = Rendered(page, "treatments", 1)
  /\ UNCHANGED <<simResults, simDetails, pendingSims, simStatus, simOut, display,
                 preRun, intended, lastInputs, prevRun, irrSt, started>>
  /\ UNCHANGED dataVars

\* click on a treatment's Remove button (5203-5212) with every prompt
\* confirmed: each listener on the list root filters the treatment out,
\* renders the list and runs calcAndRender
TreatmentDelete ==
  /\ edits + started < MaxEvents
  /\ \E k \in 1..Len(model.treatments) :
       model' = [model EXCEPT !.treatments =
                   SelectSeq(model.treatments,
                             LAMBDA x : x.id # model.treatments[k].id)]
  /\ edits' = edits + 1
  /\ display' = IF ThrowsRangeError(model') THEN display ELSE CalcResult(model')
  /\ lastAct' = IF ThrowsRangeError(model') THEN "calcAndRenderThrew" ELSE "calcAndRender"
  /\ page' = RemoveClicked(page, "treatments", TRUE)
  /\ UNCHANGED <<simResults, simDetails, pendingSims, debTimer, simStatus, simOut,
                 preRun, intended, lastInputs, prevRun, irrSt, started>>
  /\ UNCHANGED dataVars

\* input events on the horizon
InputYears == InputEvent({<<"years", 0>>, <<"years", 1>>})

\* click on #runSim (4515-4521) and runSimulation up to its await (5830-5833)
ClickRunSim ==
  /\ edits + started < MaxEvents
  /\ started' = started + 1
  /\ pendingSims' = pendingSims + 1
  /\ simStatus' = "running"
  /\ lastAct' = "clickRunSim"
  /\ UNCHANGED <<model, simResults, simDetails, debTimer, simOut, display, preRun,
                 intended, lastInputs, prevRun, irrSt, edits>>
  /\ UNCHANGED <<dataVars, page>>

\* the same if details were an array kept across runs and never emptied
SimResume_Appends ==
  /\ pendingSims > 0
  /\ pendingSims' = pendingSims - 1
  /\ preRun' = Shockables(model)
  /\ \E random \in IF model.sim.seed.given /\ model.sim.seed.value # 0
                     THEN {0} ELSE RandomSeeds :
       LET N == SimRuns(model)
           t0 == rngSeed(model.sim.seed, random)
       IN  IF ThrowsRangeError(model)
             THEN \* computeAll throws in the first pass, after the shocks
                  /\ model' = SimDraw(model, t0).shocked
                  /\ lastAct' = "runSimulationThrew"
                  /\ UNCHANGED <<simResults, simDetails, simStatus, simOut, lastInputs,
                                 prevRun>>
             ELSE /\ simDetails' = simDetails \o SimLoop(model, t0, N)
                  /\ simResults' = [npv |-> [i \in 1..N |-> simDetails'[i].npv],
                                    bcr |-> [i \in 1..N |-> simDetails'[i].bcr]]
                  /\ model' = RestoreBase(
                       SimDraw(model, RngSkip(t0, (N - 1) * CallsPerPass(model))).shocked,
                       Shockables(model))
                  /\ simOut' = [npvProbPos |-> ProbPos(simResults'.npv),
                                bcrProb1 |-> ProbBcrAbove(simResults'.bcr, 1),
                                bcrProbTarget |->
                                  ProbBcrAbove(simResults'.bcr, model.sim.targetBCR)]
                  /\ simStatus' = "complete"
                  /\ lastInputs' = model
                  /\ prevRun' = [inputs |-> lastInputs, details |-> simDetails]
                  /\ lastAct' = "runSimulation"
  /\ UNCHANGED <<debTimer, display, intended, irrSt, edits, started>>
  /\ UNCHANGED <<dataVars, page>>

\* runSimulation after its await (5835-5974), in one turn of the event loop
SimResume ==
  /\ pendingSims > 0
  /\ pendingSims' = pendingSims - 1
  /\ preRun' = Shockables(model)
  /\ \E random \in IF model.sim.seed.given /\ model.sim.seed.value # 0
                     THEN {0} ELSE RandomSeeds :
       LET N == SimRuns(model)
           t0 == rngSeed(model.sim.seed, random)
       IN  IF ThrowsRangeError(model)
             THEN \* computeAll throws in the first pass, after the shocks
                  /\ model' = SimDraw(model, t0).shocked
                  /\ lastAct' = "runSimulationThrew"
                  /\ UNCHANGED <<simResults, simDetails, simStatus, simOut, lastInputs,
                                 prevRun>>
             ELSE /\ simDetails' = SimLoop(model, t0, N)
                  /\ simResults' = [npv |-> [i \in 1..N |-> simDetails'[i].npv],
                                    bcr |-> [i \in 1..N |-> simDetails'[i].bcr]]
                  /\ model' = RestoreBase(
                       SimDraw(model, RngSkip(t0, (N - 1) * CallsPerPass(model))).shocked,
                       Shockables(model))
                  /\ simOut' = [npvProbPos |-> ProbPos(simResults'.npv),
                                bcrProb1 |-> ProbBcrAbove(simResults'.bcr, 1),
                                bcrProbTarget |->
                                  ProbBcrAbove(simResults'.bcr, model.sim.targetBCR)]
                  /\ simStatus' = "complete"
                  /\ lastInputs' = model
                  /\ prevRun' = [inputs |-> lastInputs, details |-> simDetails]
                  /\ lastAct' = "runSimulation"
  /\ UNCHANGED <<debTimer, display, intended, irrSt, edits, started>>
  /\ UNCHANGED <<dataVars, page>>

\* ------------------------------------------ the trial-data application
\* (second application of the file, lines 1486-3356).  Its numbers are kept
\* on grids too: a mean of at most AvgScale cells is an integer number of
\* 1/AvgScale, a price is in 1/PriceScale (price multipliers are tenths), a
\* discount rate is an integer percentage and the annuity factor is rounded
\* down to 1/PvScale.
AvgScale == 2
PriceScale == 10
PvScale == 1000
PowScale == 1000000

\* the denominator every present value of this application is kept over
TrialDen == AvgScale * PriceScale * PvScale

\* a numeric cell of the sheet: <<n>>, or <<>> when parseNumberSafe gives null
Cell(n) == <<n>>
Blank == <<>>

TrialRow(t, c, rep, y, vc, cc) ==
  [treatment |-> t, control |-> c, replicate |-> rep, yield |-> y, varCost |-> vc,
   capCost |-> cc]

RECURSIVE SumSeq(_)
SumSeq(s) == IF s = <<>> THEN 0 ELSE s[1] + SumSeq(Tail(s))

\* the members of a Set in insertion order
RECURSIVE Distinct(_)
Distinct(s) ==
  IF s = <<>> THEN <<>>
  ELSE LET front == Distinct(SubSeq(s, 1, Len(s) - 1))
           last == s[Len(s)]
       IN  IF \E i \in 1..Len(front) : front[i] = last THEN front
           ELSE Append(front, last)

\* the flag values that mark a control row (1725-1728)
IsControlFlag(c) == c \in {"1", "yes", "true", "control"}

\* detectTreatmentsAndControl (1694-1770) on a parsed sheet: the treatment
\* names in order of appearance, and the control: the only flagged name, the
\* most often flagged one, or else the first treatment.  "" stands for null.
detectTreatmentsAndControl(sheet) ==
  IF sheet.columns = {} \/ sheet.rows = <<>> \/ "treatment" \notin sheet.columns
    THEN [treatments |-> <<>>, controlName |-> ""]
    ELSE LET named == SelectSeq(sheet.rows, LAMBDA r : r.treatment # "")
             treatments == Distinct([i \in 1..Len(named) |-> named[i].treatment])
             flagged == IF "is_control" \in sheet.columns
                          THEN SelectSeq(named, LAMBDA r : IsControlFlag(r.control))
                          ELSE <<>>
             controls == Distinct([i \in 1..Len(flagged) |-> flagged[i].treatment])
             count(t) == Cardinality({i \in 1..Len(flagged) : flagged[i].treatment = t})
             best == CHOOSE i \in 1..Len(controls) :
                       /\ \A j \in 1..Len(controls) : count(controls[j]) <= count(controls[i])
                       /\ \A j \in 1..(i - 1) : count(controls[j]) < count(controls[i])
         IN  [treatments |-> treatments,
              controlName |-> IF Len(controls) = 1 THEN controls[1]
                              ELSE IF Len(controls) > 1 THEN controls[best]
                              ELSE IF Len(treatments) > 0 THEN treatments[1]
                              ELSE ""]

\* Math.pow(1 + r, -T) in units of 1/PowScale, rounded down at each factor
RECURSIVE DiscountPow(_, _)
DiscountPow(pct, T) ==
  IF T <= 0 THEN PowScale ELSE (DiscountPow(pct, T - 1) * 100) \div (100 + pct)

\* pvFactor (2064-2067) in units of 1/PvScale
pvFactor(pct, T) ==
  IF pct > 0
    THEN ((PowScale - DiscountPow(pct, T)) * 100) \div (pct * (PowScale \div PvScale))
    ELSE T * PvScale

\* the mean of the cells read, in units of 1/AvgScale, or the fallback
MeanOr(values, fallback) ==
  IF Len(values) > 0 THEN (SumSeq(values) * AvgScale) \div Len(values) ELSE fallback

\* the non-blank cells of a column over some rows
CellsOf(rows, col) ==
  LET filled == SelectSeq(rows, LAMBDA r : r[col] # Blank)
  IN  [i \in 1..Len(filled) |-> filled[i][col][1]]

\* repControlYield[rep] (2010-2022): the yield of the last control row of the
\* replicate, as a cell
repControlYield(st, rep) ==
  LET rows == IF st.controlName # "" /\ "replicate" \in st.columns
                THEN SelectSeq(st.rows, LAMBDA r :
                       /\ r.treatment = st.controlName /\ r.replicate = rep
                       /\ r.replicate # "" /\ r.yield # Blank)
                ELSE <<>>
  IN  IF rows = <<>> THEN Blank ELSE rows[Len(rows)].yield

\* the column cells computeTreatmentStatistics reads: a missing column reads
\* as a blank cell, a missing replicate column as replicate "all"
ReadRows(st) ==
  [i \in 1..Len(st.rows) |->
     [st.rows[i] EXCEPT
        !.replicate = IF "replicate" \in st.columns THEN @ ELSE "all",
        !.varCost = IF "variable_cost" \in st.columns THEN @ ELSE Blank,
        !.capCost = IF "capital_cost" \in st.columns THEN @ ELSE Blank]]

\* one entry of treatmentsStats (2069-2112) under a configuration
TreatmentStat(st, cfg, t) ==
  LET mine == SelectSeq(ReadRows(st), LAMBDA r : r.treatment = t)
      isControl == (t = st.controlName)
      paired == SelectSeq(mine, LAMBDA r :
                  /\ ~isControl /\ r.yield # Blank
                  /\ repControlYield(st, r.replicate) # Blank)
      yieldDelta == [i \in 1..Len(paired) |->
                       paired[i].yield[1] - repControlYield(st, paired[i].replicate)[1]]
      avgDeltaYield == MeanOr(yieldDelta, 0)
      avgVarCost == MeanOr(CellsOf(mine, "varCost"), 0)
      avgCapCost == MeanOr(CellsOf(mine, "capCost"), 0)
      factor == pvFactor(cfg.discountRate, cfg.horizonYears)
      pvBenefits == avgDeltaYield * cfg.pricePerUnit * factor
      pvCosts == avgVarCost * PriceScale * factor + avgCapCost * PriceScale * PvScale
  IN  [treatment |-> t, isControl |-> isControl, plots |-> Len(mine),
       avgDeltaYield |-> avgDeltaYield, avgVarCost |-> avgVarCost,
       avgCapCost |-> avgCapCost,
       pvBenefits |-> Ratio(pvBenefits, TrialDen), pvCosts |-> Ratio(pvCosts, TrialDen),
       npv |-> Ratio(pvBenefits - pvCosts, TrialDen),
       bcr |-> IF pvCosts > 0 THEN Ratio(pvBenefits, pvCosts) ELSE NaN,
       roi |-> IF pvCosts > 0 THEN Ratio(pvBenefits - pvCosts, pvCosts) ELSE NaN,
       rank |-> 0]

\* Array.prototype.sort with (a, b) => (b.npv || 0) - (a.npv || 0): a stable
\* sort by descending NPV
RECURSIVE SortByNpv(_)
SortByNpv(s) ==
  IF s = <<>> THEN <<>>
  ELSE LET front == SortByNpv(SubSeq(s, 1, Len(s) - 1))
           x == s[Len(s)]
           pos == Cardinality({i \in 1..Len(front) : front[i].npv.num >= x.npv.num})
       IN  SubSeq(front, 1, pos) \o <<x>> \o SubSeq(front, pos + 1, Len(front))

\* computeTreatmentStatistics (1989-2120)
computeTreatmentStatistics(st, cfg) ==
  IF st.rows = <<>> \/ st.columns = {} \/ st.treatments = <<>>
     \/ "treatment" \notin st.columns \/ "yield" \notin st.columns
    THEN <<>>
    ELSE LET sorted == SortByNpv([i \in 1..Len(st.treatments) |->
                                    TreatmentStat(st, cfg, st.treatments[i])])
         IN  [i \in 1..Len(sorted) |-> [sorted[i] EXCEPT !.rank = i]]

\* stats.find(t => t.treatment === name) || stats[0]
FindStat(stats, name) ==
  IF \E i \in 1..Len(stats) : stats[i].treatment = name
    THEN stats[CHOOSE i \in 1..Len(stats) :
                 /\ stats[i].treatment = name
                 /\ \A j \in 1..(i - 1) : stats[j].treatment # name]
    ELSE stats[1]

\* [...stats].filter(t => t.treatment !== control).sort(by NPV): the list
\* whose head is the best alternative
BestFirst(stats, control) ==
  SortByNpv(SelectSeq(stats, LAMBDA t : t.treatment # control))

\* one pass of the inner loop of computeAndRenderSensitivity (2540-2562): the
\* records it pushes for a discount rate and a price multiplier
SensitivityCell(st, dr, pm, controlBase) ==
  LET override == [st.config EXCEPT !.discountRate = dr,
                                    !.pricePerUnit = (@ * pm) \div PriceScale]
      stats == computeTreatmentStatistics(st, override)
      controlAlt == FindStat(stats, controlBase)
      bestAlt == BestFirst(stats, controlAlt.treatment)
  IN  IF stats = <<>> THEN <<>>
      ELSE IF bestAlt = <<>> THEN <<>>
      ELSE <<[discount |-> dr, priceMultiplier |-> pm,
              bestTreatment |-> bestAlt[1].treatment, bestNpv |-> bestAlt[1].npv,
              controlNpv |-> controlAlt.npv]>>

\* the two forEach loops (2539-2563) from cell k of the grid on, discounts
\* outermost
RECURSIVE SensitivityGrid(_, _, _, _, _)
SensitivityGrid(st, discounts, prices, controlBase, k) ==
  IF k > Len(discounts) * Len(prices) THEN <<>>
  ELSE SensitivityCell(st, discounts[((k - 1) \div Len(prices)) + 1],
                       prices[((k - 1) % Len(prices)) + 1], controlBase)
       \o SensitivityGrid(st, discounts, prices, controlBase, k + 1)

\* computeAndRenderSensitivity (2507-2565): the value of state.sensitivity
\* when it returns; both early returns leave it as it was
computeAndRenderSensitivity(st) ==
  LET cfg == st.config
      discounts == <<cfg.discountLow, cfg.discountBase, cfg.discountHigh>>
      prices == <<cfg.priceLow, cfg.priceBase, cfg.priceHigh>>
      baseStats == computeTreatmentStatistics(st, cfg)
      controlBase == FindStat(baseStats, st.controlName)
      bestBase == BestFirst(baseStats, controlBase.treatment)
  IN  IF baseStats = <<>> THEN st.sensitivity
      ELSE IF bestBase = <<>> THEN st.sensitivity
      ELSE [records |-> SensitivityGrid(st, discounts, prices, controlBase.treatment, 1)]

\* runAllCalculations (2141-2151)
runAllCalculations(st) ==
  LET ranked == [st EXCEPT !.results = [treatments |-> computeTreatmentStatistics(st, st.config)]]
  IN  [ranked EXCEPT !.sensitivity = computeAndRenderSensitivity(ranked)]

\* commitDataset (1665-1688)
commitDataset(st, sheet) ==
  LET found == detectTreatmentsAndControl(sheet)
  IN  runAllCalculations([st EXCEPT !.columns = sheet.columns, !.rows = sheet.rows,
                                    !.treatments = found.treatments,
                                    !.controlName = found.controlName])

\* the configuration of a fresh page (1498-1508) and of resetConfigToDefault
TrialConfigDefault ==
  [pricePerUnit |-> 600 * PriceScale, horizonYears |-> 10, discountRate |-> 6,
   discountLow |-> 4, discountBase |-> 6, discountHigh |-> 8,
   priceLow |-> 8, priceBase |-> 10, priceHigh |-> 12]

\* the state object of a fresh page (1491-1512); null results and a null
\* sensitivity are the empty lists, which is how the exports read them
TrialStateInit ==
  [columns |-> {}, rows |-> <<>>, treatments |-> <<>>, controlName |-> "",
   config |-> TrialConfigDefault, results |-> [treatments |-> <<>>],
   sensitivity |-> [records |-> <<>>]]

\* ------------------------------------------ the trial cost-benefit application
\* (first application of the file, lines 12-1470).  A mean is kept in units of
\* 1/AvgScale and a discount factor sum in units of 1/PvScale, so a present
\* value is a number of 1/CbaDen; NaN is the undefined number.
CbaDen == AvgScale * PvScale

\* meanIgnoringNaN (99-111) of the cells read
meanIgnoringNaN(values) ==
  IF Len(values) = 0 THEN NaN
  ELSE Ratio((SumSeq(values) * AvgScale) \div Len(values), AvgScale)

\* parseBoolean (82-86) on a trimmed lower-case cell
parseBoolean(c) == c \in {"true", "1", "yes", "y"}

\* name.toLowerCase().includes("control") for the names of the sheets
NamesControl(name) == name \in {"Control", "control plot"}

\* aggregateTreatments (204-291) on a parsed sheet: the per-treatment means and
\* the control: the treatment of the last flagged row, else the first name
\* containing "control", else the first treatment.  It returns early, leaving
\* the state as it was, when the sheet has no header or no row.
aggregateTreatments(st, sheet) ==
  IF sheet.columns = {} \/ sheet.rows = <<>> THEN st
  ELSE
    LET named == IF "treatment" \in sheet.columns
                   THEN SelectSeq(sheet.rows, LAMBDA r : r.treatment # "")
                   ELSE <<>>
        names == Distinct([i \in 1..Len(named) |-> named[i].treatment])
        flagged == IF "is_control" \in sheet.columns
                     THEN SelectSeq(named, LAMBDA r : parseBoolean(r.control))
                     ELSE <<>>
        byName == SelectSeq(names, NamesControl)
        controlName == IF flagged # <<>> THEN flagged[Len(flagged)].treatment
                       ELSE IF byName # <<>> THEN byName[1]
                       ELSE IF names # <<>> THEN names[1]
                       ELSE ""
        Column(t, col, key) ==
          IF key \in sheet.columns
            THEN CellsOf(SelectSeq(named, LAMBDA r : r.treatment = t), col)
            ELSE <<>>
        capital(t) == meanIgnoringNaN(Column(t, "capCost", "capital_cost"))
    IN  [st EXCEPT
           !.controlName = controlName,
           !.treatments =
              [i \in 1..Len(names) |->
                 [name |-> names[i], isControl |-> (names[i] = controlName),
                  avgYield |-> meanIgnoringNaN(Column(names[i], "yield", "yield")),
                  avgVarCost |->
                    meanIgnoringNaN(Column(names[i], "varCost", "variable_cost")),
                  avgCapCost |-> IF capital(names[i]).def THEN capital(names[i])
                                 ELSE Ratio(0, AvgScale)]]]

\* discountFactorSum (88-97) in units of 1/PvScale
discountFactorSum(pct, years) ==
  IF years <= 0 THEN 0
  ELSE IF pct = 0 THEN years * PvScale
  ELSE SumFn([t \in 1..years |-> DiscountPow(pct, t)], 1, years) \div (PowScale \div PvScale)

\* a - b on numbers that may be NaN, over the same denominator
Minus(a, b) == IF a.def /\ b.def THEN Ratio(a.num - b.num, a.den) ELSE NaN

\* the comparator if an undefined NPV counted as 0, as in (b.npv || 0)
NpvAtLeast_NaNAsZero(a, b) ==
  (IF a.npv.def THEN a.npv.num ELSE 0) >= (IF b.npv.def THEN b.npv.num ELSE 0)

\* the comparator of lines 366-370 puts b before a when it is positive: NaN
\* counts as -Infinity
NpvAtLeast(a, b) == ~b.npv.def \/ (a.npv.def /\ a.npv.num >= b.npv.num)

\* results.sort (366-370): a stable sort by descending NPV, NaN last
RECURSIVE SortResults(_)
SortResults(s) ==
  IF s = <<>> THEN <<>>
  ELSE LET front == SortResults(SubSeq(s, 1, Len(s) - 1))
           x == s[Len(s)]
           pos == Cardinality({i \in 1..Len(front) : NpvAtLeast(front[i], x)})
       IN  SubSeq(front, 1, pos) \o <<x>> \o SubSeq(front, pos + 1, Len(front))

\* lines 310-351: the result of one treatment
CbaResult(t, controlName, price, factorBenefits, factorCosts) ==
  LET pvBenefits == IF t.avgYield.def
                      THEN Ratio(t.avgYield.num * price * factorBenefits, CbaDen) ELSE NaN
      pvVarCosts == IF t.avgVarCost.def
                      THEN t.avgVarCost.num * factorCosts ELSE 0
      pvTotalCosts == Ratio(pvVarCosts + t.avgCapCost.num * PvScale, CbaDen)
      npv == Minus(pvBenefits, pvTotalCosts)
  IN  [name |-> t.name, isControl |-> (t.name = controlName),
       pvBenefits |-> pvBenefits, pvTotalCosts |-> pvTotalCosts, npv |-> npv,
       bcr |-> IF pvBenefits.def /\ pvTotalCosts.num > 0
                 THEN Ratio(pvBenefits.num, pvTotalCosts.num) ELSE NaN,
       roi |-> IF npv.def /\ pvTotalCosts.num > 0
                 THEN Ratio(npv.num, pvTotalCosts.num) ELSE NaN]

\* computeCBA (293-384); it returns early, leaving state.results as it was,
\* when there is no treatment or no control name
computeCBA(st) ==
  IF st.treatments = <<>> \/ st.controlName = "" THEN st
  ELSE
    LET price == st.params.pricePerTonne
        years == Max2(1, OrElse(st.params.years, 1))
        persistenceYears == Max2(1, Min2(years, OrElse(st.params.persistenceYears, years)))
        factorBenefits == discountFactorSum(st.params.discountRate, persistenceYears)
        factorCosts == discountFactorSum(st.params.discountRate, years)
        results == [i \in 1..Len(st.treatments) |->
                      CbaResult(st.treatments[i], st.controlName, price, factorBenefits,
                                factorCosts)]
        flagged == SelectSeq(results, LAMBDA r : r.isControl)
        controlRes == IF flagged # <<>> THEN flagged[1] ELSE results[1]
        withDeltas ==
          [i \in 1..Len(results) |->
             [name |-> results[i].name, isControl |-> results[i].isControl,
              pvBenefits |-> results[i].pvBenefits,
              pvTotalCosts |-> results[i].pvTotalCosts,
              npv |-> results[i].npv, bcr |-> results[i].bcr, roi |-> results[i].roi,
              deltaPvBenefits |-> Minus(results[i].pvBenefits, controlRes.pvBenefits),
              deltaPvCosts |-> Minus(results[i].pvTotalCosts, controlRes.pvTotalCosts),
              deltaNpv |-> Minus(results[i].npv, controlRes.npv),
              rank |-> 0]]
        sorted == SortResults(withDeltas)
    IN  [st EXCEPT !.results =
           [treatments |-> [i \in 1..Len(sorted) |-> [sorted[i] EXCEPT !.rank = i]],
            control |-> controlRes.name]]

\* commitParsedData (1279-1295)
commitParsedData(st, sheet) == computeCBA(aggregateTreatments(st, sheet))

\* onApplyScenario (1311-1338): one field of the scenario form is changed
onApplyScenario(st, field, value) ==
  computeCBA(
    CASE field = "pricePerTonne" -> [st EXCEPT !.params.pricePerTonne = value]
      [] field = "years" -> [st EXCEPT !.params.years = OrElse(value, 1)]
      [] field = "persistenceYears" ->
           [st EXCEPT !.params.persistenceYears = OrElse(value, st.params.years)]
      [] field = "discountRate" -> [st EXCEPT !.params.discountRate = value]
      [] field = "controlChoice" ->
           IF value # "" THEN [st EXCEPT !.controlName = value] ELSE st)

\* the state object of a fresh page (19-40); results.control holds the name
\* of the control result, "" for null
CbaStateInit ==
  [treatments |-> <<>>, controlName |-> "",
   params |-> [pricePerTonne |-> 500, years |-> 10, persistenceYears |-> 10,
               discountRate |-> 5],
   results |-> [treatments |-> <<>>, control |-> ""]]

\* ------------------------------------------------------------ initial models
Out(i, v) == [id |-> i, value |-> v]

Treat(i, area, d1, mat, lab, cap, con, ctl) ==
  [id |-> i, area |-> area, deltas |-> (1 :> d1), materialsCost |-> mat, servicesCost |-> 0,
   labourCost |-> lab, capitalCost |-> cap, constrained |-> con, isControl |-> ctl]

NoSeed == [given |-> FALSE, value |-> 0]

\* the model of a freshly loaded page, on the model's grids: one control and
\* one treatment, one annual benefit and one annual cost, an unseeded
\* simulation that shocks output values and treatment costs by 20 percent
ModelDefault ==
  [time |-> [years |-> 2, startYear |-> 5, discLow |-> 4, discBase |-> 7, discHigh |-> 10],
   adoption |-> [low |-> 2, base |-> 3, high |-> 4],
   risk |-> [low |-> 0, base |-> 1, high |-> 2],
   outputs |-> <<Out(1, 40)>>,
   treatments |-> <<Treat(1, 2, 0, 0, 4, 0, TRUE, TRUE), Treat(2, 2, 1, 10, 6, 20, FALSE, FALSE)>>,
   benefits |-> <<[category |-> "C4", frequency |-> "Annual", startYear |-> 5, endYear |-> 6,
                   year |-> 5, unitValue |-> 0, quantity |-> 0, abatement |-> 0,
                   annualAmount |-> 10, growthPct |-> 0, linkAdoption |-> TRUE,
                   linkRisk |-> TRUE, p0 |-> 0, p1 |-> 0, consequence |-> 0]>>,
   otherCosts |-> <<[type |-> "annual", category |-> "Capital", annual |-> 10,
                     startYear |-> 5, endYear |-> 5, capital |-> 30, year |-> 5,
                     constrained |-> TRUE, depMethod |-> "declining", depLife |-> 3,
                     depRate |-> 30]>>,
   sim |-> [n |-> 100, seed |-> NoSeed, variationPct |-> 20,
            varyOutputs |-> TRUE, varyTreatCosts |-> TRUE, varyInputCosts |-> FALSE,
            bcrMode |-> "all", targetBCR |-> 2]]

\* a loaded project whose three ranges are single points and whose variation is 0
ModelDegenerate ==
  [ModelDefault EXCEPT !.sim.n = 50, !.time.discLow = 7, !.time.discHigh = 7,
                       !.adoption.low = 3, !.adoption.high = 3,
                       !.risk.low = 1, !.risk.high = 1,
                       !.sim.variationPct = 0, !.sim.seed = [given |-> TRUE, value |-> 7]]

\* a loaded project that shocks treatment and other costs by 150 percent
ModelWide ==
  [ModelDefault EXCEPT !.sim.n = 101, !.sim.variationPct = 150, !.sim.varyOutputs = FALSE,
                       !.sim.varyInputCosts = TRUE, !.sim.bcrMode = "constrained",
                       !.sim.seed = [given |-> TRUE, value |-> 7]]

InitModels == {ModelDefault, ModelDegenerate, ModelWide}

\* loaded projects for the evaluation: the labour and capital cost of the
\* second treatment, whether treatment costs count as constrained, which
\* treatments carry the control flag, and the BCR mode
CalcModel(lab, cap, con, ctl, mode) ==
  [ModelDefault EXCEPT
     !.treatments = <<Treat(1, 2, 0, 0, 0, 0, TRUE, 1 \in ctl),
                      Treat(2, 2, 1, 0, lab, cap, con, 2 \in ctl)>>,
     !.otherCosts = <<>>,
     !.sim.bcrMode = mode]

CalcModels ==
  {CalcModel(lab, cap, con, ctl, mode) :
     lab \in {-6, 0, 60}, cap \in {0, 20}, con \in BOOLEAN,
     ctl \in {{}, {1}, {1, 2}}, mode \in {"all", "constrained"}}

\* a cash-flow series from the list of its values
Series(seq) == [t \in 0..(Len(seq) - 1) |-> seq[t + 1]]

\* the cash flows irr is followed on, in units of 1/FS^2
IrrSeries ==
  {Series(<<-100, 110>>), Series(<<-100, 60, 70>>), Series(<<-100, 0, 121>>),
   Series(<<-1, 1000>>), Series(<<-1, 20000>>), Series(<<100, 50>>),
   Series(<<100, -110>>), Series(<<-160, 100, 100>>), Series(<<-1, 0, 1000>>)}

\* no call of irr is being followed
IrrIdle == IrrStart(Series(<<0>>))

InitWith(models, calls) ==
  /\ model \in models
  /\ simResults = [npv |-> <<>>, bcr |-> <<>>]
  /\ simDetails = <<>>
  /\ pendingSims = 0
  /\ debTimer = 0
  /\ simStatus = ""
  /\ simOut = [npvProbPos |-> NaN, bcrProb1 |-> NaN, bcrProbTarget |-> NaN]
  /\ display = CalcResult(model)
  /\ lastAct = "init"
  /\ preRun = Shockables(model)
  /\ intended = Shockables(model)
  /\ lastInputs = model
  /\ prevRun = [inputs |-> model, details |-> <<>>]
  /\ irrSt \in calls
  /\ edits = 0
  /\ started = 0
  /\ page = PageInit
  /\ trialState = TrialStateInit
  /\ cbaState = CbaStateInit

\* ------------------------------------------------ the simulation and its page
Init == InitWith(InitModels, {IrrIdle})

Next == ClickRecalc \/ DebounceFire \/ InputBasics \/ ClickRunSim \/ SimResume

Spec == Init /\ [][Next]_vars

\* ------------------------------------------------- the base-case evaluation
InitCalc == InitWith(CalcModels, {IrrIdle})

NextCalc == ClickRecalc \/ DebounceFire \/ InputCalc \/ ControlToggle

SpecCalc == InitCalc /\ [][NextCalc]_vars

\* ------------------------------------------------------- the cash-flow ledgers
\* a benefit item of the model: a lump of 10 in an absolute year, or 10 a
\* year over a window, linked to adoption and risk or not
BenefitOnce(cat, yr) ==
  [category |-> cat, frequency |-> "Once", startYear |-> 5, endYear |-> 6, year |-> yr,
   unitValue |-> 0, quantity |-> 0, abatement |-> 0, annualAmount |-> 10, growthPct |-> 0,
   linkAdoption |-> FALSE, linkRisk |-> FALSE, p0 |-> 0, p1 |-> 0, consequence |-> 0]

BenefitAnnual(cat, sy, ey, linkA, linkR) ==
  [category |-> cat, frequency |-> "Annual", startYear |-> sy, endYear |-> ey, year |-> sy,
   unitValue |-> 5, quantity |-> 2, abatement |-> 3, annualAmount |-> 10, growthPct |-> 0,
   linkAdoption |-> linkA, linkRisk |-> linkR, p0 |-> 0, p1 |-> 0, consequence |-> 0]

\* an other-cost item of the model
CostCapital(yr) ==
  [type |-> "capital", category |-> "Capital", annual |-> 0, startYear |-> 5, endYear |-> 5,
   capital |-> 30, year |-> yr, constrained |-> TRUE, depMethod |-> "none", depLife |-> 3,
   depRate |-> 30]

CostAnnual(sy, ey) ==
  [type |-> "annual", category |-> "Services", annual |-> 7, startYear |-> sy, endYear |-> ey,
   capital |-> 0, year |-> sy, constrained |-> FALSE, depMethod |-> "none", depLife |-> 3,
   depRate |-> 30]

\* the ledgers a loaded project can carry besides its treatments: nothing,
\* one benefit item, or one other-cost item; the horizon starts in year 5
Ledgers ==
  {[benefits |-> <<>>, otherCosts |-> <<>>]}
  \cup {[benefits |-> <<BenefitOnce(cat, yr)>>, otherCosts |-> <<>>] :
          cat \in {"C4"}, yr \in 3..8}
  \cup {[benefits |-> <<BenefitAnnual("C6", 5, 6, TRUE, TRUE)>>, otherCosts |-> <<>>]}
  \cup {[benefits |-> <<BenefitAnnual(cat, 5, 6, linkA, linkR)>>, otherCosts |-> <<>>] :
          cat \in {"C1", "C4"}, linkA \in BOOLEAN, linkR \in BOOLEAN}
  \cup {[benefits |-> <<>>, otherCosts |-> <<CostCapital(yr)>>] : yr \in 4..8}
  \cup {[benefits |-> <<>>, otherCosts |-> <<CostAnnual(w[1], w[2])>>] :
          w \in {<<5, 6>>, <<4, 9>>, <<7, 7>>}}

\* the treatment lists of the loaded projects
TreatmentLists ==
  {<<Treat(1, 1, 1, 40, 0, 0, FALSE, TRUE)>>,
   <<Treat(1, 2, 1, 10, 5, 20, TRUE, TRUE)>>,
   <<Treat(1, 2, 0, 0, 4, 0, TRUE, TRUE), Treat(2, 2, 1, 10, 6, 20, FALSE, FALSE)>>,
   <<Treat(1, 1, 1, 10, 0, 0, TRUE, TRUE), Treat(2, 2, 1, 50, 0, 0, TRUE, FALSE)>>}

FlowModel(ts, yrs, rate, ar, led) ==
  [ModelDefault EXCEPT
     !.outputs = <<Out(1, 100)>>,
     !.treatments = ts,
     !.time.years = yrs, !.time.discBase = rate,
     !.adoption.base = ar[1], !.risk.base = ar[2],
     !.benefits = led.benefits, !.otherCosts = led.otherCosts]

\* the loaded projects: every combination in the default BCR mode, and the
\* projects with no ledger item in the constrained mode as well
FlowModels ==
  {FlowModel(ts, yrs, rate, ar, led) :
     ts \in TreatmentLists, yrs \in {1, 2}, rate \in {0, 7},
     ar \in {<<4, 0>>, <<3, 1>>}, led \in Ledgers}
  \cup {[FlowModel(ts, yrs, rate, ar, [benefits |-> <<>>, otherCosts |-> <<>>])
           EXCEPT !.sim.bcrMode = "constrained"] :
          ts \in TreatmentLists, yrs \in {1, 2}, rate \in {0, 7},
          ar \in {<<4, 0>>, <<3, 1>>}}

InitFlows == InitWith(FlowModels, {IrrIdle})

NextFlows == ClickRecalc \/ DebounceFire \/ InputYears \/ TreatmentDelete

SpecFlows == InitFlows /\ [][NextFlows]_vars

\* ------------------------------------------------------- the list edits
\* the longest list the exploration builds (the code caps treatments at 64)
MaxItems == 3

\* uid() (3378-3380) returns a random string; the model takes an identifier
\* no current item of the list carries
FreshId(items) ==
  1 + Max2(0, CHOOSE n \in {0} \cup {items[i].id : i \in 1..Len(items)} :
                 \A i \in 1..Len(items) : items[i].id <= n)

\* items.filter(x => x.id !== id) for the item at position k of a list whose
\* identifiers differ
WithoutItem(items, k) == SubSeq(items, 1, k - 1) \o SubSeq(items, k + 1, Len(items))

\* delete t.deltas[id]
WithoutKey(f, id) == [k \in DOMAIN f \ {id} |-> f[k]]

\* calcAndRender called by a handler after it has changed the model
calcAndRenderNow ==
  /\ display' = IF ThrowsRangeError(model') THEN display ELSE CalcResult(model')
  /\ lastAct' = IF ThrowsRangeError(model') THEN "calcAndRenderThrew" ELSE "calcAndRender"

\* what a handler that edits the lists and evaluates at once leaves alone
EditFrame ==
  /\ edits' = edits + 1
  /\ UNCHANGED <<simResults, simDetails, pendingSims, debTimer, simStatus, simOut,
                 preRun, intended, lastInputs, prevRun, irrSt, started>>
  /\ UNCHANGED dataVars

\* click on #addTreatment (4963-4995)
AddTreatment ==
  /\ edits + started < MaxEvents
  /\ Len(model.treatments) < MaxItems
  /\ model' = [model EXCEPT !.treatments =
                 Append(@, [id |-> FreshId(model.treatments), area |-> 0,
                            deltas |-> [o \in {model.outputs[i].id :
                                                 i \in 1..Len(model.outputs)} |-> 0],
                            materialsCost |-> 0, servicesCost |-> 0, labourCost |-> 0,
                            capitalCost |-> 0, constrained |-> TRUE, isControl |-> FALSE])]
  /\ page' = Rendered(page, "treatments", 1)
  /\ calcAndRenderNow
  /\ EditFrame

\* click on #addOutput (4940-4961)
AddOutput ==
  /\ edits + started < MaxEvents
  /\ Len(model.outputs) < MaxItems
  /\ LET id == FreshId(model.outputs)
     IN  model' = [model EXCEPT
                     !.outputs = Append(@, [id |-> id, value |-> 0]),
                     !.treatments = [i \in 1..Len(model.treatments) |->
                        [model.treatments[i] EXCEPT !.deltas = (id :> 0) @@ @]]]
  /\ page' = Rendered(page, "treatments", 1)
  /\ calcAndRenderNow
  /\ EditFrame

\* onOutputDelete if it left the deltas of the treatments alone
OutputDelete_KeepsDeltas ==
  /\ edits + started < MaxEvents
  /\ \E k \in 1..Len(model.outputs) :
       model' = [model EXCEPT !.outputs = WithoutItem(@, k)]
  /\ page' = Rendered(page, "treatments", 1)
  /\ calcAndRenderNow
  /\ EditFrame

\* onOutputDelete (5076-5089), the single onclick handler of the output
\* list, with its prompt confirmed
OutputDelete ==
  /\ edits + started < MaxEvents
  /\ \E k \in 1..Len(model.outputs) :
       model' = [model EXCEPT
                   !.outputs = WithoutItem(@, k),
                   !.treatments = [i \in 1..Len(model.treatments) |->
                      [model.treatments[i] EXCEPT
                         !.deltas = WithoutKey(@, model.outputs[k].id)]]]
  /\ page' = Rendered(page, "treatments", 1)
  /\ calcAndRenderNow
  /\ EditFrame

\* click on #addBenefit (4997-5026)
AddBenefit ==
  /\ edits + started < MaxEvents
  /\ Len(model.benefits) < MaxItems
  /\ model' = [model EXCEPT !.benefits =
                 Append(@, [category |-> "C4", frequency |-> "Annual",
                            startYear |-> model.time.startYear,
                            endYear |-> model.time.startYear,
                            year |-> model.time.startYear, unitValue |-> 0,
                            quantity |-> 0, abatement |-> 0, annualAmount |-> 0,
                            growthPct |-> 0, linkAdoption |-> TRUE, linkRisk |-> TRUE,
                            p0 |-> 0, p1 |-> 0, consequence |-> 0])]
  /\ page' = Rendered(page, "benefits", 1)
  /\ calcAndRenderNow
  /\ EditFrame

\* click on #addCost (4614-4638)
AddCost ==
  /\ edits + started < MaxEvents
  /\ Len(model.otherCosts) < MaxItems
  /\ model' = [model EXCEPT !.otherCosts =
                 Append(@, [type |-> "annual", category |-> "Services", annual |-> 0,
                            startYear |-> model.time.startYear,
                            endYear |-> model.time.startYear, capital |-> 0,
                            year |-> model.time.startYear, constrained |-> TRUE,
                            depMethod |-> "none", depLife |-> 5, depRate |-> 30])]
  /\ page' = Rendered(page, "costs", 1)
  /\ calcAndRenderNow
  /\ EditFrame

\* click on a benefit item's Remove button (5305-5313), every prompt confirmed
BenefitDelete ==
  /\ edits + started < MaxEvents
  /\ \E k \in 1..Len(model.benefits) :
       model' = [model EXCEPT !.benefits = WithoutItem(@, k)]
  /\ page' = RemoveClicked(page, "benefits", TRUE)
  /\ calcAndRenderNow
  /\ EditFrame

\* click on a cost item's Remove button (5394-5402), every prompt confirmed
CostDelete ==
  /\ edits + started < MaxEvents
  /\ \E k \in 1..Len(model.otherCosts) :
       model' = [model EXCEPT !.otherCosts = WithoutItem(@, k)]
  /\ page' = RemoveClicked(page, "costs", TRUE)
  /\ calcAndRenderNow
  /\ EditFrame

\* click on a Remove button of one of the three lists with every prompt
\* declined: each handler returns after its prompt
RemoveDeclined ==
  /\ edits + started < MaxEvents
  /\ \E list \in {"treatments", "benefits", "costs"} :
       /\ model[IF list = "costs" THEN "otherCosts" ELSE list] # <<>>
       /\ page' = RemoveClicked(page, list, FALSE)
  /\ lastAct' = "removeDeclined"
  /\ UNCHANGED <<model, display>>
  /\ EditFrame

InitEdits == InitWith({ModelDefault}, {IrrIdle})

NextEdits ==
  \/ ControlToggle \/ AddTreatment \/ TreatmentDelete \/ AddOutput \/ OutputDelete
  \/ AddBenefit \/ BenefitDelete \/ AddCost \/ CostDelete \/ RemoveDeclined
  \/ DebounceFire

SpecEdits == InitEdits /\ [][NextEdits]_vars

\* --------------------------------------------------- the variation setting
\* input events on #simVarPct
InputVarPct == InputEvent({<<"simVarPct", 0>>, <<"simVarPct", 10>>, <<"simVarPct", 150>>})

InitVar == InitWith({ModelDefault, ModelWide}, {IrrIdle})

NextVar == InputVarPct \/ DebounceFire \/ ClickRunSim \/ SimResume

SpecVar == InitVar /\ [][NextVar]_vars

\* ------------------------------------------------------------ the debounce
InitDebounce == InitWith({ModelDefault}, {IrrIdle})

NextDebounce == InputBasics \/ InputCalc \/ ControlToggle \/ DebounceFire

\* a timer leaves the set of pending timers; of the steps of the page only
\* DebounceFire is such a step
TimerFires == debTimer > 0 /\ debTimer' = debTimer - 1

\* a timer that is set fires after its 120 ms
SpecDebounce == InitDebounce /\ [][NextDebounce]_vars /\ WF_debTimer(TimerFires)

\* --------------------------------------------------- the depreciation settings
\* root.oninput of the cost list (5379-5393) for an event on the depreciation
\* method, life or rate of a cost item
CostDepInput ==
  /\ edits + started < MaxEvents
  /\ \E k \in 1..Len(model.otherCosts),
        kv \in {<<"depMethod", "none">>, <<"depMethod", "straight">>,
                <<"depMethod", "declining">>, <<"depLife", 1>>, <<"depLife", 2>>,
                <<"depRate", 50>>} :
       model' = CASE kv[1] = "depMethod" -> [model EXCEPT !.otherCosts[k].depMethod = kv[2]]
                  [] kv[1] = "depLife" -> [model EXCEPT !.otherCosts[k].depLife = kv[2]]
                  [] kv[1] = "depRate" -> [model EXCEPT !.otherCosts[k].depRate = kv[2]]
  /\ debTimer' = calcAndRenderDebounced(debTimer)
  /\ edits' = edits + 1
  /\ lastAct' = "costInput"
  /\ UNCHANGED <<simResults, simDetails, pendingSims, simStatus, simOut, display,
                 preRun, intended, lastInputs, prevRun, irrSt, started>>
  /\ UNCHANGED <<dataVars, page>>

\* the loaded projects: one other-cost item, a capital lump in the years 4
\* to 8 or an annual service cost
DepModels ==
  {FlowModel(ts, yrs, 7, <<3, 1>>, [benefits |-> <<>>, otherCosts |-> <<c>>]) :
     ts \in {ModelDefault.treatments}, yrs \in {1, 2},
     c \in {CostCapital(yr) : yr \in 4..8} \cup {CostAnnual(5, 6)}}

InitDep == InitWith(DepModels, {IrrIdle})

NextDep == ClickRecalc \/ DebounceFire \/ CostDepInput

SpecDep == InitDep /\ [][NextDep]_vars

\* ------------------------------------------------ the trial-data application
\* applyConfigFromInputs (3071-3128): a field is taken when it parses to a
\* number that is not negative (the horizon: positive); a field that does
\* not parse is typed as -1 here
applyConfigFromInputs(st, typed) ==
  LET cfg == st.config
      Taken(key) == IF typed[key] >= 0 THEN typed[key] ELSE cfg[key]
  IN  runAllCalculations(
        [st EXCEPT !.config =
           [pricePerUnit |-> Taken("pricePerUnit"),
            horizonYears |-> IF typed.horizonYears > 0 THEN typed.horizonYears
                             ELSE cfg.horizonYears,
            discountRate |-> Taken("discountRate"),
            discountLow |-> Taken("discountLow"),
            discountBase |-> Taken("discountBase"),
            discountHigh |-> Taken("discountHigh"),
            priceLow |-> Taken("priceLow"),
            priceBase |-> Taken("priceBase"),
            priceHigh |-> Taken("priceHigh")]])

\* the columns of a full trial sheet
TrialColumns ==
  {"treatment", "replicate", "yield", "variable_cost", "capital_cost", "is_control"}

\* two replicates of a treatment
Plots(t, c, y1, y2, vc, cc) ==
  <<TrialRow(t, c, "1", Cell(y1), Cell(vc), Cell(cc)),
    TrialRow(t, c, "2", Cell(y2), Cell(vc), Cell(cc))>>

\* the sheets a user loads: an empty file; a trial of the control alone; a
\* control and one alternative; three treatments with the control flagged in
\* the middle, whose best alternative changes with the price; the same with a
\* second treatment flagged once; a sheet with no yield column; a sheet with
\* no treatment column
SheetEmpty == [columns |-> {}, rows |-> <<>>]
SheetControlOnly ==
  [columns |-> TrialColumns \ {"is_control"}, rows |-> Plots("Control", "", 4, 4, 100, 0)]
SheetTwo ==
  [columns |-> TrialColumns \ {"is_control"},
   rows |-> Plots("Control", "", 4, 4, 100, 0) \o Plots("Lime", "", 5, 6, 300, 500)]
SheetThree ==
  [columns |-> TrialColumns,
   rows |-> Plots("Deep rip", "0", 6, 6, 650, 0) \o Plots("Nil", "1", 4, 4, 0, 0)
            \o Plots("Gypsum", "0", 5, 5, 100, 0)]
SheetTwoFlagged ==
  [columns |-> TrialColumns,
   rows |-> Plots("Deep rip", "0", 6, 6, 650, 0) \o Plots("Nil", "yes", 4, 4, 0, 0)
            \o <<TrialRow("Gypsum", "yes", "1", Cell(5), Blank, Cell(200)),
                 TrialRow("", "0", "2", Cell(9), Cell(1), Cell(1))>>]
SheetNoYield == [SheetTwo EXCEPT !.columns = @ \ {"yield"}]
SheetNoTreatment == [SheetTwo EXCEPT !.columns = @ \ {"treatment"}]

Sheets ==
  {SheetEmpty, SheetControlOnly, SheetTwo, SheetThree, SheetTwoFlagged, SheetNoYield,
   SheetNoTreatment}

\* what the user types into one field of the settings form before Apply; the
\* other fields still show the current configuration
ConfigEdits ==
  {<<"discountRate", 4>>, <<"discountRate", -1>>, <<"discountBase", 4>>,
   <<"priceBase", 12>>, <<"horizonYears", 2>>, <<"horizonYears", 0>>}

\* a file is loaded or pasted (commitDataset)
LoadDataset ==
  /\ \E sheet \in Sheets : trialState' = commitDataset(trialState, sheet)
  /\ UNCHANGED <<engineVars, page, cbaState>>

\* click on Apply in the settings form
ApplyConfig ==
  /\ \E e \in ConfigEdits :
       trialState' = applyConfigFromInputs(trialState,
                                           [trialState.config EXCEPT ![e[1]] = e[2]])
  /\ UNCHANGED <<engineVars, page, cbaState>>

\* click on Reset in the settings form (3130-3145)
ResetConfig ==
  /\ trialState' = runAllCalculations([trialState EXCEPT !.config = TrialConfigDefault])
  /\ UNCHANGED <<engineVars, page, cbaState>>

InitTrial == InitWith({ModelDefault}, {IrrIdle})

NextTrial == LoadDataset \/ ApplyConfig \/ ResetConfig

SpecTrial == InitTrial /\ [][NextTrial]_vars

\* --------------------------------------------- the trial cost-benefit application
\* sheets in which a treatment, or the control, has no readable yield
SheetNoAltYield ==
  [columns |-> TrialColumns \ {"is_control"},
   rows |-> Plots("Control", "", 4, 4, 100, 0)
            \o <<TrialRow("Lime", "", "1", Blank, Cell(300), Cell(500))>>
            \o Plots("Gypsum", "", 5, 5, 200, 0)]
SheetNoControlYield ==
  [columns |-> TrialColumns,
   rows |-> Plots("Lime", "0", 5, 6, 300, 500)
            \o <<TrialRow("Nil", "y", "1", Blank, Cell(0), Blank)>>]

CbaSheets == Sheets \cup {SheetNoAltYield, SheetNoControlYield}

\* what the user changes in the scenario form
ScenarioEdits ==
  {<<"pricePerTonne", 0>>, <<"years", 2>>, <<"years", 0>>, <<"persistenceYears", 1>>,
   <<"discountRate", 0>>, <<"controlChoice", "Lime">>, <<"controlChoice", "Gypsum">>}

\* a file is loaded or pasted (commitParsedData)
CommitData ==
  /\ \E sheet \in CbaSheets : cbaState' = commitParsedData(cbaState, sheet)
  /\ UNCHANGED <<engineVars, page, trialState>>

\* a field of the scenario form changes; the control select offers the
\* treatments of the data
ApplyScenario ==
  /\ \E e \in ScenarioEdits :
       /\ e[1] = "controlChoice" =>
            \E i \in 1..Len(cbaState.treatments) : cbaState.treatments[i].name = e[2]
       /\ cbaState' = onApplyScenario(cbaState, e[1], e[2])
  /\ UNCHANGED <<engineVars, page, trialState>>

InitCba == InitWith({ModelDefault}, {IrrIdle})

NextCba == CommitData \/ ApplyScenario

SpecCba == InitCba /\ [][NextCba]_vars

\* ------------------------------------------------------ irr, step by step
IrrExpand ==
  /\ irrSt.pc = "expand"
  /\ irrSt' = IrrExpandStep(irrSt)
  /\ lastAct' = "irrExpand"
  /\ UNCHANGED <<model, simResults, simDetails, pendingSims, debTimer, simStatus,
                 simOut, display, preRun, intended, lastInputs, prevRun, edits, started>>
  /\ UNCHANGED <<dataVars, page>>

IrrBisect ==
  /\ irrSt.pc = "bisect"
  /\ irrSt' = IrrBisectStep(irrSt)
  /\ lastAct' = "irrBisect"
  /\ UNCHANGED <<model, simResults, simDetails, pendingSims, debTimer, simStatus,
                 simOut, display, preRun, intended, lastInputs, prevRun, edits, started>>
  /\ UNCHANGED <<dataVars, page>>

InitIrr == InitWith({ModelDefault}, {IrrStart(cf) : cf \in IrrSeries})

NextIrr == IrrExpand \/ IrrBisect

SpecIrr == InitIrr /\ [][NextIrr]_vars

\* a call of irr runs in one turn of the event loop: its loops are not
\* suspended, so a pass that can be taken is taken
SpecIrrRun == SpecIrr /\ WF_vars(NextIrr)

\* ------------------------------------------------------------------- claims
\* runSimulation has returned, normally or by an exception
RunEnded == lastAct \in {"runSimulation", "runSimulationThrew"}

\* C1: when runSimulation has ended, normally or because an evaluation in its
\* loop failed, every output value, every treatment's materials, services and
\* labour cost and every other cost's annual and capital amount has the value
\* it had when the run began.
C1_RestoredAfterRun == RunEnded => Shockables(model) = preRun

\* C2: whatever the interleaving of clicks, input events, debounce timers
\* and runs, calcAndRender and a further runSimulation read only unperturbed
\* output values and costs.
C2_ReadsUnperturbed ==
  /\ lastAct = "calcAndRender" => display.read = intended
  /\ RunEnded => preRun = intended

\* C3: two completed runs on the same model with the same configured numeric
\* seed produce the same sequence of records.
C3_SeedReproducible ==
  ( /\ lastAct = "runSimulation"
    /\ lastInputs.sim.seed.given
    /\ prevRun.details # <<>>
    /\ prevRun.inputs = lastInputs )
  => simDetails = prevRun.details

\* the controls flagged in the model
NumControls(m) == Cardinality({i \in 1..Len(m.treatments) : m.treatments[i].isControl})

\* C4: an evaluation of a model with no control or with more than one
\* control ends in a configuration error instead of results.
C4_ControlRequired ==
  (lastAct = "calcAndRender" /\ NumControls(model) # 1) => display.outcome = "error"

\* the denominator the displayed BCR was to use
DisplayDenom ==
  IF display.bcrMode = "constrained" THEN display.pvCostsConstrained ELSE display.pvCosts

\* C5: in what computeAll returns, bcr is NaN whenever the denominator of
\* the configured mode is <= 0, roi is NaN whenever pvCosts <= 0, and with a
\* positive denominator bcr is pvBenefits over that denominator (the two
\* present values are fractions over one common denominator).
C5_RatiosGuarded ==
  lastAct = "calcAndRender" =>
    /\ DisplayDenom.num <= 0 => ~display.bcr.def
    /\ display.pvCosts.num <= 0 => ~display.roi.def
    /\ DisplayDenom.num > 0 =>
         /\ display.bcr.def
         /\ display.pvBenefits.den = DisplayDenom.den
         /\ display.bcr.num = display.pvBenefits.num
         /\ display.bcr.den = DisplayDenom.num

C5_Witness ==
  /\ lastAct = "calcAndRender"
  /\ DisplayDenom.num < 0
  /\ display.pvBenefits.num > 0
  /\ ~display.bcr.def

BcrAboveOne == display.bcr.def /\ display.bcr.num > display.bcr.den

\* C6 as stated: with pvCosts > 0, in either BCR mode, bcr > 1 exactly when
\* npv > 0.
C6_BcrSignBothModes ==
  (lastAct = "calcAndRender" /\ display.pvCosts.num > 0)
  => (BcrAboveOne <=> display.npv.num > 0)

\* C6: with pvCosts > 0 and the BCR mode "all", bcr > 1 exactly when npv > 0.
C6_BcrSignModeAll ==
  (lastAct = "calcAndRender" /\ display.pvCosts.num > 0 /\ display.bcrMode = "all")
  => (BcrAboveOne <=> display.npv.num > 0)

C6_Witness ==
  /\ lastAct = "calcAndRender"
  /\ display.bcrMode = "all"
  /\ display.pvCosts.num > 0
  /\ display.pvCostsConstrained.num < display.pvCosts.num
  /\ ~BcrAboveOne
  /\ display.npv.num < 0

\* C7: irr returns NaN when the bisection has used all its 80 iterations
\* without reaching |NPV(mid)| < 1e-8.
C7_ExhaustedIsNaN ==
  (irrSt.pc = "done" /\ irrSt.i = IrrMaxIter) => ~irrSt.result.def

\* the three sampled ranges are single points and the variation is 0
Degenerate(m) ==
  /\ m.sim.variationPct = 0
  /\ m.time.discLow = m.time.discBase /\ m.time.discBase = m.time.discHigh
  /\ m.adoption.low = m.adoption.base /\ m.adoption.base = m.adoption.high
  /\ m.risk.low = m.risk.base /\ m.risk.base = m.risk.high

\* C8: with variationPct = 0 and low = base = high for the discount rate,
\* adoption and risk, every record of a completed run carries the NPV that
\* computeAll returns for the base discount rate, adoption and risk.
C8_DegenerateRun ==
  (lastAct = "runSimulation" /\ Degenerate(lastInputs)) =>
    \A i \in DOMAIN simDetails :
      simDetails[i].npv =
        computeAll(lastInputs, lastInputs.time.discBase, lastInputs.adoption.base,
                   lastInputs.risk.base, lastInputs.sim.bcrMode).npv

C8_Witness ==
  /\ lastAct = "runSimulation"
  /\ Degenerate(lastInputs)
  /\ lastInputs.sim.varyOutputs
  /\ Len(simDetails) >= 100

\* C9 as stated: for every configured n >= 1 a completed run leaves exactly
\* n records.
C9_ExactlyN ==
  (lastAct = "runSimulation" /\ lastInputs.sim.n >= 1) => Len(simDetails) = lastInputs.sim.n

\* C9: a completed run leaves exactly n records for a configured n >= 100,
\* and exactly 100 records for a configured n from 1 to 99; the npv and bcr
\* arrays have the same length.
C9_ExactlyMax100N ==
  lastAct = "runSimulation" =>
    /\ lastInputs.sim.n >= 100 => Len(simDetails) = lastInputs.sim.n
    /\ lastInputs.sim.n \in 1..99 => Len(simDetails) = 100
    /\ Len(simResults.npv) = Len(simDetails)
    /\ Len(simResults.bcr) = Len(simDetails)

C9_Witness ==
  /\ lastAct = "runSimulation"
  /\ lastInputs.sim.n \in 1..99
  /\ Len(simDetails) = 100

\* the finite BCRs of the last run, and those above x
FiniteBcrs == Cardinality({i \in DOMAIN simResults.bcr : simResults.bcr[i].def})
BcrsAbove(x) ==
  Cardinality({i \in DOMAIN simResults.bcr :
                 simResults.bcr[i].def /\ simResults.bcr[i].num > x * simResults.bcr[i].den})
FiniteNpvs == Cardinality({i \in DOMAIN simResults.npv : simResults.npv[i].def})
NpvsAbove0 ==
  Cardinality({i \in DOMAIN simResults.npv :
                 simResults.npv[i].def /\ simResults.npv[i].num > 0})

\* C10: the probabilities a completed run reports for NPV > 0, BCR > 1 and
\* BCR > target are the fractions of the finite results that satisfy them.
C10_FractionsOfFinite ==
  (lastAct = "runSimulation" /\ FiniteBcrs > 0) =>
    /\ simOut.bcrProb1.num * FiniteBcrs = BcrsAbove(1) * simOut.bcrProb1.den
    /\ simOut.bcrProbTarget.num * FiniteBcrs
         = BcrsAbove(lastInputs.sim.targetBCR) * simOut.bcrProbTarget.den
    /\ FiniteNpvs > 0 =>
         simOut.npvProbPos.num * FiniteNpvs = NpvsAbove0 * simOut.npvProbPos.den

\* C11: an evaluation of a model with no treatments or with a horizon of
\* zero years ends in an explicit "no results" outcome and shows no numeric
\* result as the current one.
C11_NoResultsOutcome ==
  (lastAct = "calcAndRender" /\ (Len(model.treatments) = 0 \/ model.time.years = 0))
  => display.outcome = "noResults"

\* the axes of the sensitivity grid as configured
GridDiscounts ==
  <<trialState.config.discountLow, trialState.config.discountBase,
    trialState.config.discountHigh>>
GridPrices ==
  <<trialState.config.priceLow, trialState.config.priceBase, trialState.config.priceHigh>>

\* C12: the sensitivity records of the loaded trial are one per (discount
\* rate, price multiplier) pair of the configured axes, discount rates
\* outermost and no pair skipped, whenever the trial has a treatment besides
\* the control; a trial of a single treatment has no record for any pair.
C12_OneRecordPerPair ==
  LET recs == trialState.sensitivity.records
  IN  /\ Len(trialState.treatments) >= 2 =>
           /\ Len(recs) = Len(GridDiscounts) * Len(GridPrices)
           /\ \A d \in 1..Len(GridDiscounts), p \in 1..Len(GridPrices) :
                LET rec == recs[(d - 1) * Len(GridPrices) + p]
                IN  rec.discount = GridDiscounts[d] /\ rec.priceMultiplier = GridPrices[p]
      /\ Len(trialState.treatments) = 1 => recs = <<>>

\* C13: the sensitivity record at the base-case discount rate and price
\* multiplier 1 names the highest-NPV treatment of the base-case ranking that
\* is not the control, with the base-case NPVs of that treatment and of the
\* control; it never names the control.
C13_BaseCellIsBaseCase ==
  LET recs == trialState.sensitivity.records
      ranking == trialState.results.treatments
      others == SelectSeq(ranking, LAMBDA t : t.treatment # trialState.controlName)
  IN  \A k \in 1..Len(recs) :
        (recs[k].discount = trialState.config.discountRate
         /\ recs[k].priceMultiplier = PriceScale) =>
          /\ others # <<>>
          /\ recs[k].bestTreatment = others[1].treatment
          /\ recs[k].bestNpv = others[1].npv
          /\ recs[k].controlNpv = FindStat(ranking, trialState.controlName).npv
          /\ recs[k].bestTreatment # trialState.controlName

\* the page shows the evaluation of the project as it is now
DisplayFresh == lastAct \in {"init", "calcAndRender"}

\* the project is a single treatment with no benefit item and no other-cost
\* item, evaluated at discount rate 0, risk 0 and full adoption
SimpleProject ==
  /\ DisplayFresh
  /\ Len(model.treatments) = 1 /\ Len(model.outputs) = 1
  /\ model.benefits = <<>> /\ model.otherCosts = <<>>
  /\ model.time.discBase = 0 /\ model.risk.base = 0 /\ model.adoption.base = FS
  /\ model.time.years >= 0

\* N*A*b, K + N*A*c and the unit the displayed present values are kept in
SimpleBenefits ==
  model.time.years * model.treatments[1].area
    * model.treatments[1].deltas[1] * model.outputs[1].value
SimpleCosts ==
  model.treatments[1].capitalCost
    + model.time.years * model.treatments[1].area
        * (model.treatments[1].materialsCost + model.treatments[1].servicesCost
           + model.treatments[1].labourCost)
SimpleUnit == FS * FS * display.pvBenefits.den

\* the sums of a simple project: pvBenefits = N*A*b, pvCosts = K + N*A*c,
\* npv their difference and roi = npv / pvCosts
SimpleSums ==
  /\ display.pvBenefits.num = SimpleBenefits * SimpleUnit
  /\ display.pvCosts.num = SimpleCosts * SimpleUnit
  /\ display.pvCosts.den = display.pvBenefits.den
  /\ display.npv = Ratio((SimpleBenefits - SimpleCosts) * SimpleUnit, display.pvBenefits.den)
  /\ SimpleCosts > 0 =>
       display.roi = Ratio((SimpleBenefits - SimpleCosts) * SimpleUnit,
                           SimpleCosts * SimpleUnit)

SimpleBcr ==
  SimpleCosts > 0 =>
    display.bcr = Ratio(SimpleBenefits * SimpleUnit, SimpleCosts * SimpleUnit)

\* C14 as stated: for a single treatment of area A, value b and recurring cost
\* c per hectare and capital K over N years, at rate 0, risk 0, adoption 1 and
\* with no ledger item, pvBenefits = N*A*b, pvCosts = K + N*A*c, npv is their
\* difference, bcr = pvBenefits / pvCosts and roiPct = 100 * npv / pvCosts.
C14_SimpleSums == SimpleProject => (SimpleSums /\ SimpleBcr)

\* C14 as it holds: the same, with bcr = pvBenefits / pvCosts when the BCR is
\* taken over all costs or the treatment's costs are flagged constrained; in
\* the constrained mode the BCR of an unflagged treatment is undefined.
C14_SimpleSumsModeAll ==
  SimpleProject =>
    /\ SimpleSums
    /\ (display.bcrMode = "all" \/ model.treatments[1].constrained) => SimpleBcr
    /\ (display.bcrMode = "constrained" /\ ~model.treatments[1].constrained) =>
         ~display.bcr.def

\* the example of C14: N = 1, A = 1, b = 100, c = 40, K = 0 shows 100, 40, 60,
\* 2.5 and 150 per cent
C14_Witness ==
  /\ SimpleProject /\ lastAct = "calcAndRender" /\ display.bcrMode = "all"
  /\ model.time.years = 1 /\ model.treatments[1].area = 1
  /\ SimpleBenefits = 100 /\ SimpleCosts = 40 /\ model.treatments[1].capitalCost = 0
  /\ display.pvBenefits.num = 100 * SimpleUnit
  /\ display.pvCosts.num = 40 * SimpleUnit
  /\ display.npv.num = 60 * SimpleUnit
  /\ display.bcr.def /\ 2 * display.bcr.num = 5 * display.bcr.den
  /\ display.roi.def /\ 100 * display.roi.num = 150 * display.roi.den

\* the results list of the cost-benefit application and its control entry
CbaResults == cbaState.results.treatments
CbaControl ==
  CbaResults[CHOOSE i \in 1..Len(CbaResults) : CbaResults[i].name = cbaState.results.control]

\* the list is in non-increasing NPV order with the undefined NPVs last, and
\* the ranks are 1..K in list order
RankedByNpv ==
  /\ \A i \in 1..Len(CbaResults), j \in 1..Len(CbaResults) :
       (i < j /\ CbaResults[j].npv.def) =>
         (CbaResults[i].npv.def /\ CbaResults[i].npv.num >= CbaResults[j].npv.num)
  /\ \A i \in 1..Len(CbaResults) : CbaResults[i].rank = i

\* where the values are defined, the deltas are the differences to the control
DeltasToControl ==
  \A i \in 1..Len(CbaResults) :
    LET r == CbaResults[i]
    IN  /\ (r.npv.def /\ CbaControl.npv.def) =>
             (r.deltaNpv.def /\ r.deltaNpv.num = r.npv.num - CbaControl.npv.num
              /\ r.deltaNpv.den = r.npv.den)
        /\ r.deltaPvCosts.def
        /\ r.deltaPvCosts.num = r.pvTotalCosts.num - CbaControl.pvTotalCosts.num
        /\ r.deltaPvCosts.den = r.pvTotalCosts.den

\* C15 as stated: after computeCBA the results are in non-increasing NPV order
\* with every undefined NPV after every defined one, the ranks are 1..K in
\* list order, and deltaNpv and deltaPvCosts are the treatment's npv and
\* pvTotalCosts minus the control's, 0 for the control itself.
C15_RankedDeltasZeroForControl ==
  CbaResults # <<>> =>
    /\ RankedByNpv
    /\ DeltasToControl
    /\ CbaControl.deltaNpv.def /\ CbaControl.deltaNpv.num = 0
    /\ CbaControl.deltaPvCosts.def /\ CbaControl.deltaPvCosts.num = 0

\* C15 as it holds: the same order, ranks and differences; the control's own
\* deltaPvCosts is 0, and its deltaNpv is 0 when its NPV is defined; when the
\* NPV of the treatment or of the control is undefined, deltaNpv is undefined.
C15_RankedDeltas ==
  CbaResults # <<>> =>
    /\ RankedByNpv
    /\ DeltasToControl
    /\ CbaControl.deltaPvCosts.def /\ CbaControl.deltaPvCosts.num = 0
    /\ CbaControl.npv.def => (CbaControl.deltaNpv.def /\ CbaControl.deltaNpv.num = 0)
    /\ \A i \in 1..Len(CbaResults) :
         (~CbaResults[i].npv.def \/ ~CbaControl.npv.def) => ~CbaResults[i].deltaNpv.def

\* three results after computeCBA: two defined NPVs in strictly descending
\* order, both negative, the undefined one last, and a treatment with a
\* non-zero difference to the control
C15_Witness ==
  /\ Len(CbaResults) = 3
  /\ CbaResults[1].npv.def /\ CbaResults[2].npv.def /\ ~CbaResults[3].npv.def
  /\ CbaResults[1].npv.num > CbaResults[2].npv.num /\ CbaResults[1].npv.num < 0
  /\ CbaControl.npv.def /\ CbaControl.deltaNpv.num = 0
  /\ \E i \in 1..3 : CbaResults[i].deltaNpv.def /\ CbaResults[i].deltaNpv.num # 0

\* C16: the rows of the engine's treatment summary, whose displayed rank is
\* the position, are in descending order of NPV (an undefined NPV would come
\* last; the NPV of a row is always a number here).
C16_SummaryByNpv ==
  DisplayFresh =>
    \A i \in 1..Len(display.treatmentSummary), j \in 1..Len(display.treatmentSummary) :
      i < j => display.treatmentSummary[i].m.npv.num >= display.treatmentSummary[j].m.npv.num

\* C17: a simulation run passes through Idle, Running and Complete in that
\* order and every run that enters Running reaches Complete: once every
\* started run has returned, the status line reads Complete.
C17_RunReachesComplete ==
  (started > 0 /\ pendingSims = 0) => simStatus = "complete"

\* what the benefit items add to benefitByYear at an index of the displayed
\* evaluation, and what the other-cost items add to costByYear, in 1/FS^2
TreatmentsBenefit ==
  SumFn([i \in 1..Len(model.treatments) |->
           TreatBenefit(model, model.treatments[i], model.adoption.base, model.risk.base)],
        1, Len(model.treatments))
TreatmentsCost(idx) ==
  FS * FS * SumFn([i \in 1..Len(model.treatments) |->
                     IF idx = 0 THEN model.treatments[i].capitalCost
                     ELSE TreatOpCost(model.treatments[i])], 1, Len(model.treatments))
ExtraBenefit(idx) ==
  display.benefitByYear[idx] - (IF idx = 0 THEN 0 ELSE TreatmentsBenefit)
ExtraCost(idx) == display.costByYear[idx] - TreatmentsCost(idx)

\* the displayed evaluation is of a project with one benefit item, or with one
\* other-cost item, over a horizon of N >= 0 years
OneBenefit ==
  DisplayFresh /\ model.time.years >= 0 /\ Len(model.benefits) = 1
OneOtherCost ==
  DisplayFresh /\ model.time.years >= 0 /\ Len(model.otherCosts) = 1 /\ model.benefits = <<>>

IsOnce(b) == b.frequency = "Once" \/ b.category = "C6"

\* C18: a benefit item with frequency Once or category C6 adds one single lump
\* to benefitByYear, at one index and no other, exactly when its year offset
\* onceYear - baseYear lies in [0, N], and adds nothing at any index otherwise.
C18_OnceLumpInHorizon ==
  (OneBenefit /\ IsOnce(model.benefits[1])) =>
    LET b == model.benefits[1]
        N == model.time.years
        offset == OrElse(b.year, OrElse(b.startYear, model.time.startYear))
                    - model.time.startYear
        lump == b.annualAmount * (IF b.linkAdoption THEN model.adoption.base ELSE FS)
                  * (IF b.linkRisk THEN FS - model.risk.base ELSE FS)
        posted == {idx \in 0..N : ExtraBenefit(idx) # 0}
    IN  IF offset >= 0 /\ offset <= N
          THEN Cardinality(posted) = 1 /\ \A idx \in posted : ExtraBenefit(idx) = lump
          ELSE posted = {}

\* C19: a capital other-cost item with year offset k = capitalYear - baseYear
\* adds its capital amount to costByYear[k] exactly when 0 <= k <= N and adds
\* nothing to any index otherwise; an annual other-cost item adds its annual
\* amount to exactly the indices of its window that fall in 1..N.
C19_OtherCostIndices ==
  OneOtherCost =>
    LET c == model.otherCosts[1]
        N == model.time.years
        k == c.year - model.time.startYear
    IN  \A idx \in 0..N :
          ExtraCost(idx) =
            IF c.type = "capital"
              THEN (IF idx = k THEN c.capital * FS * FS ELSE 0)
              ELSE (IF idx >= 1 /\ c.startYear <= model.time.startYear + idx - 1
                       /\ model.time.startYear + idx - 1 <= c.endYear
                      THEN c.annual * FS * FS ELSE 0)

\* after a recalculation, a capital item falls beyond the horizon and is
\* dropped, with costs at the last index that are those of the treatments
C19_Witness ==
  /\ OneOtherCost /\ lastAct = "calcAndRender"
  /\ model.otherCosts[1].type = "capital"
  /\ model.otherCosts[1].year - model.time.startYear > model.time.years
  /\ model.time.years >= 1
  /\ ExtraCost(model.time.years) = 0 /\ display.costByYear[model.time.years] > 0

\* C20: in every year of its window within the horizon, an annual benefit
\* item adds its category's base amount, multiplied by (1 - risk) if and only
\* if it is linked to risk and by the adoption fraction if and only if it is
\* linked to adoption; an item linked to neither adds the base amount itself
\* whatever the adoption and the risk.  (The base amount of a year is the
\* category's amount grown by growthPct; the items here have no growth.)
C20_LinkedScaling ==
  (OneBenefit /\ ~IsOnce(model.benefits[1])) =>
    LET b == model.benefits[1]
        N == model.time.years
    IN  \A idx \in 1..N :
          (b.startYear <= model.time.startYear + idx - 1
           /\ model.time.startYear + idx - 1 <= b.endYear) =>
            ExtraBenefit(idx) =
              BenefitAmount(b)
                * (IF b.linkRisk THEN FS - model.risk.base ELSE FS)
                * (IF b.linkAdoption THEN model.adoption.base ELSE FS)

\* after a recalculation at adoption 3/4 and risk 1/4, an item linked to risk
\* only adds 3/4 of its base amount in the first year
C20_Witness ==
  /\ OneBenefit /\ ~IsOnce(model.benefits[1]) /\ lastAct = "calcAndRender"
  /\ model.benefits[1].linkRisk /\ ~model.benefits[1].linkAdoption
  /\ model.adoption.base = 3 /\ model.risk.base = 1 /\ model.time.years >= 1
  /\ ExtraBenefit(1) = BenefitAmount(model.benefits[1]) * 3 * FS
  /\ BenefitAmount(model.benefits[1]) = 10

\* the net cash flow and the discounted cumulative net cash flow, over the
\* common denominator, of the evaluation on display
DisplayCf ==
  [t \in DOMAIN display.benefitByYear |-> display.benefitByYear[t] - display.costByYear[t]]

CumAt(t) == SumFn([u \in 0..t |-> DiscountedTerm(DisplayCf, display.rate, u)], 0, t)

\* C21: payback returns the smallest index of 0..N at which the discounted
\* cumulative net cash flow is >= 0, so that it is < 0 at every index before,
\* and returns "not reached" exactly when it is < 0 at every index of 0..N.
C21_PaybackFirstCrossing ==
  LET p == display.paybackYears
      N == Cardinality(DOMAIN display.benefitByYear) - 1
  IN  /\ p \in -1..N
      /\ p >= 0 => (CumAt(p) >= 0 /\ \A u \in 0..(p - 1) : CumAt(u) < 0)
      /\ p = -1 <=> \A u \in 0..N : CumAt(u) < 0

\* an evaluation in which the cumulative value starts below zero and crosses
\* it in a later year
C21_Witness ==
  /\ lastAct = "calcAndRender"
  /\ display.paybackYears >= 1
  /\ CumAt(0) < 0

\* the model without the depreciation settings of its other-cost items
StripDep(m) ==
  [m EXCEPT !.otherCosts =
     [k \in 1..Len(m.otherCosts) |->
        [m.otherCosts[k] EXCEPT !.depMethod = "none", !.depLife = 0, !.depRate = 0]]]

\* the three cash-flow series and the evaluation result of the base case
Evaluation(m) ==
  [flows |-> buildCashflows(m, m.adoption.base, m.risk.base),
   result |-> [CalcResult(m) EXCEPT !.depSummary = <<>>]]

\* C22: a step that changes nothing but an other-cost item's depreciation
\* method, life or rate leaves benefitByYear, costByYear,
\* constrainedCostByYear and every field of the evaluation result as they
\* were, and a step that computes the depreciation schedule leaves the model
\* as it was.
C22_DepreciationInformational ==
  [][/\ StripDep(model') = StripDep(model) => Evaluation(model') = Evaluation(model)
     /\ display'.depSummary # display.depSummary => model' = model]_vars

\* a schedule on display that was computed after a depreciation setting changed
C22_Witness ==
  /\ lastAct = "calcAndRender"
  /\ edits > 0
  /\ display.depSummary # <<>>
  /\ display.depSummary # renderDepreciationSummary(lastInputs)

\* C23: irr terminates for every cash-flow series: once the sign-change
\* precondition holds it makes at most 20 expansions of hi, then at most 80
\* bisection passes, and then returns a rate or the undefined sentinel.
C23_IrrTerminates ==
  /\ [](/\ irrSt.k <= IrrMaxExpand
        /\ irrSt.i <= IrrMaxIter
        /\ irrSt.i > 0 => irrSt.pc # "expand"
        /\ irrSt.pc = "done" => (irrSt.result = NaN \/ irrSt.result.def))
  /\ <>(irrSt.pc = "done")

\* a call that expanded its bracket, used up the 80 bisection passes and returned
C23_Witness ==
  /\ irrSt.pc = "done"
  /\ irrSt.k > 0
  /\ irrSt.i = IrrMaxIter

\* C24: one click on a Remove button of the treatment, benefit or cost list
\* invokes the removal handler, and with it the confirm prompt, exactly
\* once, however often the list was rendered before the click.
C24_OnePromptPerClick == page.prompts <= 1

\* the records a computation on the loaded dataset and configuration stores
\* when nothing is held before it
CurrentRecords ==
  computeAndRenderSensitivity([trialState EXCEPT !.sensitivity = [records |-> <<>>]]).records

\* C25: after every dataset commit and every configuration change the
\* records of state.sensitivity, which exportSensitivityCsv writes out, were
\* computed from the loaded dataset and configuration; after a dataset with
\* no usable treatment or a single treatment is loaded, no record of an
\* earlier dataset remains.
C25_SensitivityCurrent == trialState.sensitivity.records = CurrentRecords

\* C26: the simulator's variation percentage is the value last entered in
\* the settings, 0 included: after 0 is entered a run applies no
\* multiplicative shock to output values, treatment costs or other costs.
C26_VariationAsEntered ==
  /\ page.simVarPct.entered => model.sim.variationPct = page.simVarPct.value
  /\ (lastAct = "runSimulation" /\ page.simVarPct.entered /\ page.simVarPct.value = 0) =>
       \A k \in 0..(UD - 1) : ShockNum(k, VarPct(lastInputs)) = ShockDen

\* C27: after any sequence of control/treatment toggles, add-treatment and
\* remove-treatment edits from the initial model, at most one treatment has
\* isControl = true.
C27_AtMostOneControl == NumControls(model) <= 1

\* a treatment added on the page has been made the control
C27_Witness ==
  /\ lastAct = "controlToggle"
  /\ Len(model.treatments) = MaxItems
  /\ model.treatments[MaxItems].isControl
  /\ ~model.treatments[1].isControl

\* the identifiers of the outputs of the model
OutputIds == {model.outputs[i].id : i \in 1..Len(model.outputs)}

\* C29: after any sequence of add-output, remove-output, add-treatment and
\* remove-treatment edits from the initial model, the deltas map of every
\* treatment has an entry for each current output id and for nothing else.
C29_DeltasMatchOutputs ==
  \A i \in 1..Len(model.treatments) : DOMAIN model.treatments[i].deltas = OutputIds

\* the first output has been removed, an output has been added and a
\* treatment has been added
C29_Witness ==
  /\ OutputIds # {}
  /\ 1 \notin OutputIds
  /\ Len(model.treatments) = MaxItems

\* the results on display are those of the model as it is
DisplayCurrent == ~ThrowsRangeError(model) /\ display = CalcResult(model)

\* C28: whatever burst of edits the input handlers receive, at most one
\* recalculation timer is pending at any time, and calcAndRender runs after
\* the last edit, so that the base-case results on display come to be those
\* of the latest model.
C28_DebounceSettles ==
  /\ [](debTimer <= 1)
  /\ <>[](debTimer = 0 /\ DisplayCurrent)

\* the record the pass of index i leaves in a run on the model m whose
\* generator starts from state t0
RecordOfPass(m, t0, i) ==
  SimRecord(SimDraw(m, RngSkip(t0, (i - 1) * CallsPerPass(m))), m.sim.bcrMode)

\* C30: a completed runSimulation leaves in model.sim.results and
\* model.sim.details the results of that run only: results.npv, results.bcr
\* and details have the length of the run's iteration count, index i of each
\* is the same draw, and nothing of an earlier run remains (the first and
\* the last record are those of this run's first and last pass).
C30_ResultsOfLastRun ==
  lastAct = "runSimulation" =>
    LET N == SimRuns(lastInputs)
    IN  /\ Len(simDetails) = N
        /\ Len(simResults.npv) = N
        /\ Len(simResults.bcr) = N
        /\ \A i \in 1..N : /\ simResults.npv[i] = simDetails[i].npv
                            /\ simResults.bcr[i] = simDetails[i].bcr
        /\ \E random \in IF lastInputs.sim.seed.given /\ lastInputs.sim.seed.value # 0
                             THEN {0} ELSE RandomSeeds :
             \A i \in {1, N} :
               simDetails[i] =
                 RecordOfPass(lastInputs, rngSeed(lastInputs.sim.seed, random), i)

\* a second completed run whose records differ from those of the run before
C30_Witness ==
  /\ lastAct = "runSimulation"
  /\ prevRun.details # <<>>
  /\ prevRun.details # simDetails

====
